---- MODULE Spec2Model ----
(***************************************************************************)
(* Verification model of the WOTS+ primitive of Vindax-MCM-tools           *)
(* (tool-3/wots.go and the tool-2 variant) and of the wallet-tool          *)
(* transaction monitoring loop (wallet-tool/main.go).                      *)
(*                                                                         *)
(* SHA-256 is an uninterpreted injective function: a digest is the term    *)
(* <<"sha256", p1, p2, p3>> of its three 32-byte input parts, and the XOR  *)
(* of two 32-byte blocks is the term <<"xor", a, b>>.  Plain byte strings  *)
(* are sequences of integers 0..255.                                       *)
(***************************************************************************)
EXTENDS Integers, Sequences, FiniteSets, TLC

(***************************************************************************)
(* Scheme parameters (tool-3/wots.go:9-19, tool-2 variant :153-164).       *)
(***************************************************************************)
paramSN == 32
wotsw == 16
wotsLogW == 4
wotsLen1 == (8 * paramSN) \div wotsLogW
wotsLen2 == 3
wotsLen == wotsLen1 + wotsLen2
wotsSigBytes == wotsLen * paramSN
xmssHashPaddingPRF == 3
xmssHashPaddingF == 0
AddrWords == 8

(***************************************************************************)
(* Bounds of the model.                                                    *)
(***************************************************************************)
MaxFill == 1
MaxVar == 4
MaxSeed == 1
ParSteps == 1

(***************************************************************************)
(* Results of Go code that may panic: [ok |-> FALSE] is a run-time panic   *)
(* (index or slice bound out of range).                                    *)
(***************************************************************************)
Ok(v) == [ok |-> TRUE, val |-> v]
Panic == [ok |-> FALSE, val |-> <<>>]

Min(a, b) == IF a < b THEN a ELSE b

\* s[from:to] of Go on a 0-based byte slice, as a 1-based sequence
Slice(s, from, to) == [k \in 1..(to - from) |-> s[from + k]]

\* ullToBytes(out, in): big-endian, the low byte last, high bytes of `in`
\* dropped: byte i from the end is byte(in >> 8*i).  The values converted
\* are below 2^31, so the bytes above the low 4 are 0.
ullToBytes(outlen, in) ==
  [k \in 1..outlen |->
     IF outlen - k > 3 THEN 0 ELSE (in \div (256 ^ (outlen - k))) % 256]

(***************************************************************************)
(* Encoder of tool-3/wots.go.                                              *)
(***************************************************************************)
\* one input byte is consumed every 8 / wotsLogW digits (bits reaches 0)
digitsPerByte == 8 \div wotsLogW

\* mutant: the low nibble of a byte comes first
baseWMutLowFirst(outlen, input) ==
  IF (outlen + digitsPerByte - 1) \div digitsPerByte > Len(input) THEN Panic
  ELSE Ok([k \in 1..outlen |->
             LET out == k - 1
                 total == input[(out \div digitsPerByte) + 1]
                 bits == wotsLogW * (out % digitsPerByte)
             IN (total \div (2 ^ bits)) % wotsw])

\* baseW(output, input): fills the len(output) digits of output.  Digit
\* `out` is taken from input[in] with in = out / digitsPerByte, after bits
\* has been lowered (out % digitsPerByte) + 1 times from 8; reading past
\* the end of input panics.
baseW(outlen, input) ==
  IF (outlen + digitsPerByte - 1) \div digitsPerByte > Len(input) THEN Panic
  ELSE Ok([k \in 1..outlen |->
             LET out == k - 1
                 total == input[(out \div digitsPerByte) + 1]
                 bits == 8 - wotsLogW * ((out % digitsPerByte) + 1)
             IN (total \div (2 ^ bits)) % wotsw])

\* mutant: the checksum adds the digits instead of their complements
RECURSIVE csumLoopMutNoComplement(_, _, _)
csumLoopMutNoComplement(msgBaseW, from, to) ==
  IF from >= to THEN 0
  ELSE IF from + 1 = to THEN msgBaseW[from + 1]
  ELSE LET mid == (from + to) \div 2
       IN csumLoopMutNoComplement(msgBaseW, from, mid)
            + csumLoopMutNoComplement(msgBaseW, mid, to)

\* the loop  for i := from; i < to; i++ { csum += wotsw - 1 - msgBaseW[i] }
\* as the sum of its two halves
RECURSIVE csumLoop(_, _, _)
csumLoop(msgBaseW, from, to) ==
  IF from >= to THEN 0
  ELSE IF from + 1 = to THEN wotsw - 1 - msgBaseW[from + 1]
  ELSE LET mid == (from + to) \div 2
       IN csumLoop(msgBaseW, from, mid) + csumLoop(msgBaseW, mid, to)

wotsChecksumShift == (8 - ((wotsLen2 * wotsLogW) % 8)) % 8

\* mutant: the checksum is not shifted to the top of its 2 bytes
wotsChecksumMutNoShift(msgBaseW) ==
  baseW(wotsLen2, ullToBytes((wotsLen2 * wotsLogW + 7) \div 8, csumLoop(msgBaseW, 0, wotsLen1)))

wotsChecksum(msgBaseW) ==
  LET csum == csumLoop(msgBaseW, 0, wotsLen1)
      bitsNeeded == wotsLen2 * wotsLogW
      bytesNeeded == (bitsNeeded + 7) \div 8
      csumBytes == ullToBytes(bytesNeeded, csum * (2 ^ wotsChecksumShift))
  IN baseW(wotsLen2, csumBytes)

\* chainLengths(lengths, msg): the caller has checked len(msg) >= paramSN
chainLengths(msg) ==
  IF Len(msg) < paramSN THEN Panic
  ELSE LET m == baseW(wotsLen1, Slice(msg, 0, paramSN))
       IN IF ~m.ok THEN Panic
          ELSE LET c == wotsChecksum(m.val)
               IN IF ~c.ok THEN Panic ELSE Ok(m.val \o c.val)

(***************************************************************************)
(* Encoder of the tool-2 variant.                                          *)
(***************************************************************************)
\* binary.BigEndian.PutUint64(b, v): needs len(b) >= 8
PutUint64(b, v) ==
  IF Len(b) < 8 THEN Panic
  ELSE Ok([k \in 1..Len(b) |-> IF k <= 8 THEN ullToBytes(8, v)[k] ELSE b[k]])

\* baseW(msg) always produces WOTSLEN digits
T2baseW(msg) == baseW(wotsLen, msg)

T2wotsChecksum(msgBaseW) ==
  LET csum == csumLoop(msgBaseW, 0, wotsLen1) * (2 ^ (8 - ((wotsLen2 * wotsLogW) % 8)))
      csumBytes == PutUint64([k \in 1..((wotsLen2 * wotsLogW + 7) \div 8) |-> 0], csum)
  IN IF ~csumBytes.ok THEN Panic
     ELSE LET b == T2baseW(csumBytes.val)
          IN IF ~b.ok THEN Panic ELSE Ok(SubSeq(b.val, 1, wotsLen2))

\* chainLengths(msg): msg[:WOTSLEN1] needs cap(msg) >= WOTSLEN1; the bytes
\* between len and cap are whatever follows msg in its backing array
T2chainLengths(msg, backing) ==
  IF Len(msg) + Len(backing) < wotsLen1 THEN Panic
  ELSE LET m == T2baseW(Slice(msg \o backing, 0, wotsLen1))
       IN IF ~m.ok THEN Panic
          ELSE LET c == T2wotsChecksum(m.val)
               IN IF ~c.ok THEN Panic
                  ELSE Ok(SubSeq(m.val, 1, wotsLen1) \o c.val)

(***************************************************************************)
(* Hash primitives.  Sha256 is uninterpreted and injective; a byte string  *)
(* enters it as Pack(bytes) = its length and its bytes after the leading   *)
(* zeros, which is an injective encoding of the string.                    *)
(***************************************************************************)
\* the index of the first byte of s that is not 0, Len(s) + 1 if there is none
firstNonZero(s) ==
  CHOOSE i \in 1..(Len(s) + 1) :
    /\ \A j \in 1..(i - 1) : s[j] = 0
    /\ i = Len(s) + 1 \/ s[i] # 0

Pack(bytes) ==
  <<"bytes", Len(bytes)>> \o SubSeq(bytes, firstNonZero(bytes), Len(bytes))

Sha256(p1, p2, p3) == <<"sha256", p1, p2, p3>>

Xor(a, b) == <<"xor", a, b>>

\* binary.BigEndian.PutUint32 of one address word
PutUint32(w) ==
  <<(w \div 16777216) % 256, (w \div 65536) % 256, (w \div 256) % 256, w % 256>>

\* addrToBytes: PutUint32(bytes[i*4:], addr[i]) for i = 0..7, unrolled
addrToBytes(addr) ==
  PutUint32(addr[1]) \o PutUint32(addr[2]) \o PutUint32(addr[3]) \o PutUint32(addr[4])
    \o PutUint32(addr[5]) \o PutUint32(addr[6]) \o PutUint32(addr[7]) \o PutUint32(addr[8])

\* mutant: the copy of addr into the new slice is left out
withWordMutNoCopy(addr, k, v) ==
  [j \in 1..AddrWords |-> IF j = k + 1 THEN v ELSE 0]

\* copy(newAddr, addr); newAddr[k] = v, on a fresh 8-word slice
withWord(addr, k, v) ==
  [j \in 1..AddrWords |-> IF j = k + 1 THEN v
                          ELSE IF j <= Len(addr) THEN addr[j] ELSE 0]

withChainAddr(addr, chain) == withWord(addr, 5, chain)
withHashAddr(addr, hash) == withWord(addr, 6, hash)
withKeyAndMask(addr, keyAndMask) == withWord(addr, 7, keyAndMask)

\* the two 32-byte paddings, ullToBytes(padding, 3) and ullToBytes(buf, 0)
paddingPRF == Pack(ullToBytes(paramSN, xmssHashPaddingPRF))
paddingF == Pack(ullToBytes(paramSN, xmssHashPaddingF))

\* prf(out, in, key): sha256(toByte(3, 32) || key || in); key and in are
\* byte strings here
prf(in, key) == Sha256(paddingPRF, Pack(key), Pack(in))

\* thashF(out, in, pubSeed, addr): `in` is a 32-byte block (a term)
thashF(in, pubSeed, addr) ==
  LET key == prf(addrToBytes(withKeyAndMask(addr, 0)), pubSeed)
      mask == prf(addrToBytes(withKeyAndMask(addr, 1)), pubSeed)
  IN Sha256(paddingF, key, Xor(in, mask))

\* the loop of genChain for the hash steps from..to-1 on `current`: the
\* steps from..mid-1 (a), then the steps mid..to-1 on what they leave (b)
RECURSIVE genChainLoop(_, _, _, _, _)
genChainLoop(current, from, to, pubSeed, addr) ==
  IF from >= to THEN current
  ELSE IF from + 1 = to THEN thashF(current, pubSeed, withHashAddr(addr, from))
  ELSE LET mid == (from + to) \div 2
           a == genChainLoop(current, from, mid, pubSeed, addr)
           b == genChainLoop(a, mid, to, pubSeed, addr)
       IN <<a, b>>[2]

\* mutant: the walk starts at hash step 0 whatever `start` is
genChainMutIgnoreStart(out, in, start, steps, pubSeed, addr) ==
  genChainLoop(in, 0, Min(steps, wotsw), pubSeed, addr)

\* mutant: a walk of no steps returns before anything is copied to out
genChainMutNoCopy(out, in, start, steps, pubSeed, addr) ==
  IF steps = 0 THEN out
  ELSE genChainLoop(in, start, Min(start + steps, wotsw), pubSeed, addr)

\* genChain(out, in, start, steps, pubSeed, addr): what the 32 bytes of out
\* hold at return: copy(out, in), the walk on current for
\* i := start; i < start+steps && i < wotsw; i++, copy(out, current)
genChain(out, in, start, steps, pubSeed, addr) ==
  genChainLoop(in, start, Min(start + steps, wotsw), pubSeed, addr)

\* expandSeed(out, seed): chunk i = prf(toByte(i, 32), seed)
expandSeed(seed) ==
  [k \in 1..wotsLen |-> prf(ullToBytes(32, k - 1), seed)]

(***************************************************************************)
(* Buffers.  A byte buffer of n bytes is [n, c]: c holds its n \div 32     *)
(* whole 32-byte chunks, each a block.  A result is [err, buf].            *)
(***************************************************************************)
Buf(n, c) == [n |-> n, c |-> c]

\* a buffer of n bytes holding earlier content
OldBuf(n) == Buf(n, [k \in 1..(n \div paramSN) |-> <<"old", k>>])

\* the loop over the chains: chunk k of the buffer, k = 1..wotsLen, becomes
\* new[k]; the buffer has at least wotsLen chunks and keeps the others
WriteChunks(buf, new) ==
  Buf(buf.n, [k \in 1..Len(buf.c) |-> IF k <= wotsLen THEN new[k] ELSE buf.c[k]])

\* mutant: the chunks of the buffer are cleared before the error return
FailMutCleared(msg, buf) ==
  [err |-> msg, buf |-> Buf(buf.n, [k \in 1..Len(buf.c) |-> <<"zero", 0>>])]

Fail(msg, buf) == [err |-> msg, buf |-> buf]
Done(buf) == [err |-> "", buf |-> buf]

(***************************************************************************)
(* KeyPairEngine of tool-3/wots.go.                                        *)
(***************************************************************************)
\* mutant: the seed is only checked not to be too short
WotsSignMutSeedMin(sig, msg, seed, pubSeed, addr) ==
  IF sig.n < wotsSigBytes THEN Fail("signature buffer too small", sig)
  ELSE IF Len(msg) < paramSN THEN Fail("message too short", sig)
  ELSE IF Len(seed) < paramSN THEN Fail("seed must be 32 bytes", sig)
  ELSE IF Len(pubSeed) # paramSN THEN Fail("pubSeed must be 32 bytes", sig)
  ELSE IF Len(addr) # AddrWords THEN Fail("address must be 8 uint32s", sig)
  ELSE LET lengths == chainLengths(msg).val
           expandedSeed == expandSeed(seed)
           new == [k \in 1..wotsLen |->
                     genChain(sig.c[k], expandedSeed[k], 0, lengths[k], pubSeed,
                              withChainAddr(addr, k - 1))]
       IN Done(WriteChunks(sig, new))

WotsSign(sig, msg, seed, pubSeed, addr) ==
  IF sig.n < wotsSigBytes THEN Fail("signature buffer too small", sig)
  ELSE IF Len(msg) < paramSN THEN Fail("message too short", sig)
  ELSE IF Len(seed) # paramSN THEN Fail("seed must be 32 bytes", sig)
  ELSE IF Len(pubSeed) # paramSN THEN Fail("pubSeed must be 32 bytes", sig)
  ELSE IF Len(addr) # AddrWords THEN Fail("address must be 8 uint32s", sig)
  ELSE LET lengths == chainLengths(msg).val
           expandedSeed == expandSeed(seed)
           new == [k \in 1..wotsLen |->
                     genChain(sig.c[k], expandedSeed[k], 0, lengths[k], pubSeed,
                              withChainAddr(addr, k - 1))]
       IN Done(WriteChunks(sig, new))

WotsPkGen(pk, seed, pubSeed, addr) ==
  IF pk.n < wotsLen * paramSN THEN Fail("public key buffer too small", pk)
  ELSE IF Len(seed) # paramSN THEN Fail("seed must be 32 bytes", pk)
  ELSE IF Len(pubSeed) # paramSN THEN Fail("pubSeed must be 32 bytes", pk)
  ELSE IF Len(addr) # AddrWords THEN Fail("address must be 8 uint32s", pk)
  ELSE LET expandedSeed == expandSeed(seed)
           new == [k \in 1..wotsLen |->
                     genChain(pk.c[k], expandedSeed[k], 0, wotsw - 1, pubSeed,
                              withChainAddr(addr, k - 1))]
       IN Done(WriteChunks(pk, new))

\* mutant: recovery walks one step more than 15 - digit
WotsPkFromSigMutExtraStep(pk, sig, msg, pubSeed, addr) ==
  IF pk.n < wotsLen * paramSN THEN Fail("public key buffer too small", pk)
  ELSE IF sig.n < wotsSigBytes THEN Fail("signature too short", pk)
  ELSE IF Len(msg) < paramSN THEN Fail("message too short", pk)
  ELSE IF Len(pubSeed) # paramSN THEN Fail("pubSeed must be 32 bytes", pk)
  ELSE IF Len(addr) # AddrWords THEN Fail("address must be 8 uint32s", pk)
  ELSE LET lengths == chainLengths(msg).val
           new == [k \in 1..wotsLen |->
                     genChain(pk.c[k], sig.c[k], lengths[k], wotsw - lengths[k],
                              pubSeed, withChainAddr(addr, k - 1))]
       IN Done(WriteChunks(pk, new))

WotsPkFromSig(pk, sig, msg, pubSeed, addr) ==
  IF pk.n < wotsLen * paramSN THEN Fail("public key buffer too small", pk)
  ELSE IF sig.n < wotsSigBytes THEN Fail("signature too short", pk)
  ELSE IF Len(msg) < paramSN THEN Fail("message too short", pk)
  ELSE IF Len(pubSeed) # paramSN THEN Fail("pubSeed must be 32 bytes", pk)
  ELSE IF Len(addr) # AddrWords THEN Fail("address must be 8 uint32s", pk)
  ELSE LET lengths == chainLengths(msg).val
           new == [k \in 1..wotsLen |->
                     genChain(pk.c[k], sig.c[k], lengths[k], wotsw - 1 - lengths[k],
                              pubSeed, withChainAddr(addr, k - 1))]
       IN Done(WriteChunks(pk, new))

(***************************************************************************)
(* KeyPairEngine of the tool-2 variant: one WOTSAddress is mutated in      *)
(* place through a pointer, so every routine returns the address it leaves *)
(* behind together with its output.                                        *)
(***************************************************************************)
setKeyAndMask(addr, keyAndMask) == [addr EXCEPT ![8] = keyAndMask]
setChainAddr(addr, chain) == [addr EXCEPT ![6] = chain]
setHashAddr(addr, hash) == [addr EXCEPT ![7] = hash]

\* ullToBytes(outlen, in): PutUint64 into the last 8 bytes of a zeroed slice
T2ullToBytes(outlen, in) ==
  [k \in 1..outlen |-> IF k > outlen - 8 THEN ullToBytes(8, in)[k - (outlen - 8)] ELSE 0]

\* binary.BigEndian.Uint32 of addr[i*4 : (i+1)*4], for the 8 words
bytes32ToWOTSAddress(addr) ==
  [i \in 1..AddrWords |->
     addr[4 * i - 3] * 16777216 + addr[4 * i - 2] * 65536 + addr[4 * i - 1] * 256 + addr[4 * i]]

T2paddingPRF == Pack(T2ullToBytes(paramSN, xmssHashPaddingPRF))
T2paddingF == Pack(T2ullToBytes(paramSN, xmssHashPaddingF))

\* prf(in, key): the key is cut to key[:PARAMSN]
T2prf(in, key) == Sha256(T2paddingPRF, Pack(SubSeq(key, 1, paramSN)), Pack(in))

T2thashF(in, pubSeed, addr) ==
  LET a0 == setKeyAndMask(addr, 0)
      key == T2prf(addrToBytes(a0), pubSeed)
      a1 == setKeyAndMask(a0, 1)
      bitmask == T2prf(addrToBytes(a1), pubSeed)
  IN [out |-> Sha256(T2paddingF, key, Xor(in, bitmask)),
      addr |-> a1]

\* the loop of genChain for the hash steps from..to-1, on the caller's
\* address: the steps from..mid-1 (a), then the steps mid..to-1 on the
\* output and the address they leave (b)
RECURSIVE T2genChainLoop(_, _, _, _, _)
T2genChainLoop(out, from, to, pubSeed, addr) ==
  IF from >= to THEN [out |-> out, addr |-> addr]
  ELSE IF from + 1 = to THEN T2thashF(out, pubSeed, setHashAddr(addr, from))
  ELSE LET mid == (from + to) \div 2
           a == T2genChainLoop(out, from, mid, pubSeed, addr)
           b == T2genChainLoop(a.out, mid, to, pubSeed, a.addr)
       IN <<a, b>>[2]

\* genChain: for i := start; i < start+steps && i < WOTSW; i++
T2genChain(in, start, steps, pubSeed, addr) ==
  T2genChainLoop(in, start, Min(start + steps, wotsw), pubSeed, addr)

T2expandSeed(seed) ==
  [k \in 1..wotsLen |-> T2prf(T2ullToBytes(32, k - 1), seed)]

\* the chain loop of WOTSSign / WOTSPkFromSig / WOTSPkGen for the chains
\* from..to-1: chain i starts at in[i] and walks steps[i] from start[i], all
\* on the one wotsAddr.  The iterations from..to-1 are those of from..mid-1
\* followed by those of mid..to-1 on the address the first half leaves.
RECURSIVE T2chainsLoop(_, _, _, _, _, _, _)
T2chainsLoop(from, to, in, start, steps, pubSeed, wotsAddr) ==
  IF from >= to THEN [out |-> <<>>, addr |-> wotsAddr]
  ELSE IF from + 1 = to
    THEN LET r == T2genChain(in[from + 1], start[from + 1], steps[from + 1], pubSeed,
                             setChainAddr(wotsAddr, from))
         IN [out |-> <<r.out>>, addr |-> r.addr]
  ELSE LET mid == (from + to) \div 2
           a == T2chainsLoop(from, mid, in, start, steps, pubSeed, wotsAddr)
           b == T2chainsLoop(mid, to, in, start, steps, pubSeed, a.addr)
       IN [out |-> a.out \o b.out, addr |-> b.addr]

WOTSPkGen(seed, pubSeed, addr) ==
  IF Len(seed) < paramSN \/ Len(pubSeed) < paramSN THEN Panic
  ELSE Ok(Buf(wotsLen * paramSN,
              T2chainsLoop(0, wotsLen, T2expandSeed(seed), [k \in 1..wotsLen |-> 0],
                           [k \in 1..wotsLen |-> wotsw - 1], pubSeed,
                           bytes32ToWOTSAddress(addr)).out))

WOTSSign(msg, backing, seed, pubSeed, addr) ==
  LET lengths == T2chainLengths(msg, backing)
  IN IF ~lengths.ok \/ Len(seed) < paramSN \/ Len(pubSeed) < paramSN THEN Panic
     ELSE Ok(Buf(wotsSigBytes,
                 T2chainsLoop(0, wotsLen, T2expandSeed(seed), [k \in 1..wotsLen |-> 0],
                              lengths.val, pubSeed, bytes32ToWOTSAddress(addr)).out))

WOTSPkFromSig(sig, msg, backing, pubSeed, addr) ==
  LET lengths == T2chainLengths(msg, backing)
  IN IF ~lengths.ok \/ sig.n < wotsSigBytes \/ Len(pubSeed) < paramSN THEN Panic
     ELSE Ok(Buf(wotsSigBytes,
                 T2chainsLoop(0, wotsLen, sig.c, lengths.val,
                              [k \in 1..wotsLen |-> wotsw - 1 - lengths.val[k]],
                              pubSeed, bytes32ToWOTSAddress(addr)).out))

(***************************************************************************)
(* tool-2 generateAccount (tool-2/main.go:81-106): the key pair itself     *)
(* comes from the external WOTS-Go library and is left abstract.           *)
(***************************************************************************)
generateAccount(seed) ==
  IF Len(seed) # 32 THEN "seed must be exactly 32 bytes" ELSE ""

(***************************************************************************)
(* State.                                                                  *)
(*   Encoder runs:   msgA, msgB digests; lensA, lensB, t2lensA results.    *)
(*   Key-pair runs:  wIn inputs; wPk, wSig, wRec results of tool-3;        *)
(*                   t2Pk, t2Sig, t2Rec results of the tool-2 variant;     *)
(*                   wAcct result of generateAccount; wIn2, wRec2 a second *)
(*                   recovery on inputs that differ in one place.          *)
(*   Parallel runs:  chainAddr, par3, out3 the chain processes of tool-3;  *)
(*                   wotsAddr, par2, out2 those of the tool-2 variant.     *)
(*   Wallet tool:    height, txBlock, mempool the chain as the node serves *)
(*                   it; elapsed the time since startTime; apiReliable     *)
(*                   whether every call to the node returns without error; *)
(*                   keeptrying, confirmations, timeout the flags; txID    *)
(*                   ... failedAttempts the variables of main; verified    *)
(*                   the last verification result; submits the calls of    *)
(*                   SubmitTransaction; lastMsg the last line printed by   *)
(*                   the block branch of the loop.                         *)
(*   Single calls:   callIn the arguments and callOut the results of a     *)
(*                   function or of a run of main that is checked on its   *)
(*                   own.                                                  *)
(*   pc:             the position of the driver.                           *)
(***************************************************************************)
VARIABLES pc, msgA, msgB, lensA, lensB, t2lensA,
          wIn, wPk, wSig, wRec, t2Pk, t2Sig, t2Rec, wAcct, wIn2, wRec2,
          chainAddr, par3, out3, wotsAddr, par2, out2,
          height, txBlock, mempool, elapsed, apiReliable,
          keeptrying, confirmations, timeout,
          txID, submits, inMempool, txConfirmed, confirmBlockHeight,
          confirmedCount, lastCheckedBlock, skipMempoolCheck, failedAttempts,
          verified, lastMsg,
          callIn, callOut

encVars == <<msgA, msgB, lensA, lensB, t2lensA>>
wotsVars == <<wIn, wPk, wSig, wRec, t2Pk, t2Sig, t2Rec, wAcct, wIn2, wRec2>>
parVars == <<chainAddr, par3, out3, wotsAddr, par2, out2>>
chainVars == <<height, txBlock, mempool>>
flagVars == <<apiReliable, keeptrying, confirmations, timeout>>
loopVars == <<txID, submits, inMempool, txConfirmed, confirmBlockHeight, confirmedCount,
              lastCheckedBlock, skipMempoolCheck, failedAttempts, verified, lastMsg>>
monVars == <<chainVars, elapsed, flagVars, loopVars>>
callVars == <<callIn, callOut>>
vars == <<pc, encVars, wotsVars, parVars, monVars, callVars>>

\* ------------------------------------------------------------ input sets
FillBytes == {(255 * k) % 256 : k \in 0..MaxFill}
VarBytes == {(18 + 15 * k) % 256 : k \in 0..MaxVar} \cup {(49 * k) % 256 : k \in 0..MaxVar}

\* a digest: byte 0 is v0, byte 31 is v31, the others are fill
Digest(fill, v0, v31) ==
  [k \in 1..paramSN |-> IF k = 1 THEN v0 ELSE IF k = paramSN THEN v31 ELSE fill]

Digests ==
  {Digest(f, v, w) : f \in FillBytes, v \in VarBytes, w \in {0, 33, 255}}

\* a byte string of n bytes: zeros, then v
Bytes(n, v) == [k \in 1..n |-> IF k = n THEN v ELSE 0]

\* an address of n words; words 5..7 hold what the caller left there
Addr(n, v) == [k \in 1..n |-> IF k = 5 THEN v ELSE IF k >= 6 THEN 60 + k ELSE 0]

NoBuf == Buf(0, <<>>)
NotRun == Fail("not run", NoBuf)
T2Ok(buf) == [ok |-> TRUE, buf |-> buf]
T2Panic == [ok |-> FALSE, buf |-> NoBuf]
T2Result(r) == IF r.ok THEN T2Ok(r.val) ELSE T2Panic
NoLens == [ok |-> FALSE, val |-> <<>>]

EncIdle ==
  /\ msgA = <<>> /\ msgB = <<>>
  /\ lensA = NoLens /\ lensB = NoLens /\ t2lensA = NoLens

NoInput ==
  [seed |-> <<>>, pubSeed |-> <<>>, addr |-> <<>>, msg |-> <<>>, backing |-> <<>>,
   pk |-> NoBuf, sig |-> NoBuf]

\* a chain process that is not running
NoProc == [pc |-> "idle", j |-> 0, current |-> <<"none", 0>>, key |-> <<"none", 0>>]

\* the chains that are run as processes: the first two of the loop
ParProcs == {0, 1}

ParIdle ==
  /\ chainAddr = [i \in ParProcs |-> <<>>]
  /\ par3 = [i \in ParProcs |-> NoProc]
  /\ out3 = [i \in ParProcs |-> <<"none", 0>>]
  /\ wotsAddr = <<>>
  /\ par2 = [i \in ParProcs |-> NoProc]
  /\ out2 = [i \in ParProcs |-> <<"none", 0>>]

WotsIdle ==
  /\ wIn = NoInput /\ wIn2 = NoInput
  /\ wPk = NotRun /\ wSig = NotRun /\ wRec = NotRun /\ wRec2 = NotRun
  /\ t2Pk = T2Panic /\ t2Sig = T2Panic /\ t2Rec = T2Panic
  /\ wAcct = "not run"

\* no call is under way
CallIdle == callIn = <<>> /\ callOut = <<>>

\* the wallet tool has not been started
NoMsg == <<"none", "none">>

MonIdle ==
  /\ height = 0 /\ txBlock = 0 /\ mempool = FALSE /\ elapsed = 0
  /\ apiReliable = TRUE /\ keeptrying = FALSE /\ confirmations = 1 /\ timeout = 0
  /\ txID = <<>> /\ submits = 0 /\ inMempool = FALSE /\ txConfirmed = FALSE
  /\ confirmBlockHeight = 0 /\ confirmedCount = 0 /\ lastCheckedBlock = 0
  /\ skipMempoolCheck = FALSE /\ failedAttempts = 0
  /\ verified = FALSE /\ lastMsg = NoMsg

(***************************************************************************)
(* Encoder runs: both encoders applied to digests drawn from Digests.      *)
(***************************************************************************)
EncInit ==
  /\ pc = "encA"
  /\ msgA \in Digests /\ msgB \in Digests
  /\ lensA = NoLens /\ lensB = NoLens /\ t2lensA = NoLens
  /\ WotsIdle
  /\ ParIdle
  /\ MonIdle
  /\ CallIdle

EncodeA ==
  /\ pc = "encA"
  /\ lensA' = chainLengths(msgA)
  /\ pc' = "encB"
  /\ UNCHANGED <<callVars, monVars, msgA, msgB, lensB, t2lensA, wotsVars, parVars>>

EncodeB ==
  /\ pc = "encB"
  /\ lensB' = chainLengths(msgB)
  /\ pc' = "encT2"
  /\ UNCHANGED <<callVars, monVars, msgA, msgB, lensA, t2lensA, wotsVars, parVars>>

\* the tool-2 encoder on msgA, whose backing array continues with msgB
EncodeT2 ==
  /\ pc = "encT2"
  /\ t2lensA' = T2chainLengths(msgA, msgB)
  /\ pc' = "encDone"
  /\ UNCHANGED <<callVars, monVars, msgA, msgB, lensA, lensB, wotsVars, parVars>>

EncNext == EncodeA \/ EncodeB \/ EncodeT2

SpecEnc == EncInit /\ [][EncNext]_vars

(***************************************************************************)
(* Claims about the encoder (under SpecEnc).                               *)
(***************************************************************************)
EncDone == pc \in {"encT2", "encDone"} /\ lensA.ok /\ lensB.ok

MsgDigits == 1..wotsLen1
CsumDigits == (wotsLen1 + 1)..wotsLen

\* the checksum value of a digit string: the sum of 15 - digit
CsumValue(l) == csumLoop(l, 0, wotsLen1)

\* every message digit of lb is >= that of la, one of them strictly
Dominates(lb, la) ==
  /\ \A k \in MsgDigits : lb[k] >= la[k]
  /\ \E k \in MsgDigits : lb[k] > la[k]

\* lb is la with one message digit increased and another decreased
IsMutation(la, lb) ==
  \E i \in MsgDigits : \E j \in MsgDigits \ {i} :
     /\ lb[i] > la[i]
     /\ lb[j] < la[j]
     /\ \A k \in MsgDigits \ {i, j} : lb[k] = la[k]

\* C2: no digest's chain lengths dominate another's: when every message
\* digit of msgB is >= that of msgA and one is greater, the checksum value
\* of msgB is smaller and one of its 3 checksum digits is smaller; and two
\* digests with different chain lengths always have an index where the
\* second is smaller than the first.
C2_NoDomination ==
  EncDone =>
    /\ Dominates(lensB.val, lensA.val) =>
         /\ CsumValue(lensB.val) < CsumValue(lensA.val)
         /\ \E k \in CsumDigits : lensB.val[k] < lensA.val[k]
    /\ lensA.val # lensB.val =>
         \E k \in 1..wotsLen : lensB.val[k] < lensA.val[k]

\* msgB dominates msgA and a checksum digit of msgB is larger all the same
\* (the checksum borrows from a higher digit)
C2_Witness ==
  /\ EncDone
  /\ Dominates(lensB.val, lensA.val)
  /\ \E k \in CsumDigits : lensB.val[k] > lensA.val[k]

\* 67 values, each in 0..15
WellFormedLengths(r) ==
  /\ r.ok
  /\ Len(r.val) = wotsLen
  /\ \A k \in 1..wotsLen : r.val[k] \in 0..(wotsw - 1)

\* C19 as stated: in both implementations chainLengths of a 32-byte digest
\* completes without a failure and returns exactly 67 values, each in 0..15.
C19_ChainLengthsTotal ==
  /\ pc \in {"encB", "encT2", "encDone"} /\ msgA \in Digests => WellFormedLengths(lensA)
  /\ pc \in {"encT2", "encDone"} /\ msgB \in Digests => WellFormedLengths(lensB)
  /\ pc = "encDone" /\ msgA \in Digests => WellFormedLengths(t2lensA)

\* the sum of the digits from+1..to of l
RECURSIVE DigitSum(_, _, _)
DigitSum(l, from, to) ==
  IF from >= to THEN 0
  ELSE IF from + 1 = to THEN l[to]
  ELSE LET mid == (from + to) \div 2
       IN DigitSum(l, from, mid) + DigitSum(l, mid, to)

\* the sum over the 64 message digits of 15 - digit
RefCsum(l) == (wotsw - 1) * wotsLen1 - DigitSum(l, 0, wotsLen1)

\* l is the reference encoding of the digest msg
RefEncoding(msg, l) ==
  /\ Len(l) = wotsLen
  /\ \A k \in 0..(paramSN - 1) :
       /\ l[2 * k + 1] = msg[k + 1] \div 16
       /\ l[2 * k + 2] = msg[k + 1] % 16
  /\ 256 * l[wotsLen1 + 1] + 16 * l[wotsLen1 + 2] + l[wotsLen1 + 3] = RefCsum(l)
  /\ RefCsum(l) <= 960

\* C20: chainLengths of tool-3 is the reference encoding: entries 2k and
\* 2k+1 are the high and the low nibble of digest byte k, entries 64..66
\* are the three base-16 digits, most significant first, of the sum of
\* 15 - entry over the 64 message entries, which is at most 960.
C20_ReferenceEncoding ==
  EncDone => RefEncoding(msgA, lensA.val) /\ RefEncoding(msgB, lensB.val)

\* a digest whose first byte is 0x12, and the digest of zeros, whose
\* checksum is the largest
C20_Witness ==
  /\ EncDone
  /\ msgA[1] = 18 /\ lensA.val[1] = 1 /\ lensA.val[2] = 2
  /\ lensA.val[wotsLen1 + 3] # 0
  /\ RefCsum(lensB.val) = 960
  /\ SubSeq(lensB.val, wotsLen1 + 1, wotsLen) = <<3, 12, 0>>

\* C3 as stated: every mutation that increases one message digit and
\* decreases another changes the recomputed checksum digits.
C3_MutationChangesChecksum ==
  (EncDone /\ IsMutation(lensA.val, lensB.val)) =>
     \E k \in CsumDigits : lensB.val[k] # lensA.val[k]

\* C3 amended: such a mutation changes the recomputed checksum digits
\* exactly when it changes the sum of the message digits (the increase
\* differs from the decrease); otherwise the checksum digits are the same
\* and the decreased digit is the only one that is smaller.
C3_ChecksumFollowsDigitSum ==
  (EncDone /\ IsMutation(lensA.val, lensB.val)) =>
     /\ (\E k \in CsumDigits : lensB.val[k] # lensA.val[k])
          <=> (CsumValue(lensB.val) # CsumValue(lensA.val))
     /\ \E k \in MsgDigits : lensB.val[k] < lensA.val[k]

\* a mutation by equal amounts: the checksum digits stay as they were
C3_Witness ==
  /\ EncDone
  /\ IsMutation(lensA.val, lensB.val)
  /\ \A k \in CsumDigits : lensB.val[k] = lensA.val[k]

\* a mutation by different amounts (the checksum digits change)
C3_WitnessUnequal ==
  /\ EncDone
  /\ IsMutation(lensA.val, lensB.val)
  /\ CsumValue(lensB.val) # CsumValue(lensA.val)

(***************************************************************************)
(* Key-pair runs: a driver applies the entry points of both                *)
(* implementations, in order, to inputs drawn at the start.                *)
(***************************************************************************)
\* byte lengths tried for a 2144-byte buffer and for a 32-byte string
BufLens == {wotsSigBytes - 1, wotsSigBytes, wotsSigBytes + 2 * paramSN}
StrLens == {paramSN - 1, paramSN, paramSN + 1}
AddrLens == {AddrWords - 1, AddrWords, AddrWords + 1}

WotsDigests == {Digest(f, 240, f) : f \in FillBytes}

\* a message of n bytes that starts with the digest d
Msg(d, n) == [k \in 1..n |-> IF k <= Len(d) THEN d[k] ELSE 7]

WotsInput(seed, pubSeed, addr, msg, pkn, sign) ==
  [seed |-> seed, pubSeed |-> pubSeed, addr |-> addr, msg |-> msg,
   backing |-> Bytes(paramSN, 9), pk |-> OldBuf(pkn), sig |-> OldBuf(sign)]

ExactInput(s, p, a, d) ==
  WotsInput(Bytes(paramSN, s), Bytes(paramSN, p), Addr(AddrWords, a), d,
            wotsSigBytes, wotsSigBytes)

\* one input of the exact sizes with one argument resized
Resized(in) ==
  {[in EXCEPT !.seed = Bytes(n, 1)] : n \in StrLens}
  \cup {[in EXCEPT !.pubSeed = Bytes(n, 1)] : n \in StrLens}
  \cup {[in EXCEPT !.addr = Addr(n, 1)] : n \in AddrLens}
  \cup {[in EXCEPT !.msg = Msg(in.msg, n)] : n \in StrLens}
  \cup {[in EXCEPT !.pk = OldBuf(n)] : n \in BufLens}
  \cup {[in EXCEPT !.sig = OldBuf(n)] : n \in BufLens}

\* exact sizes with varied contents, and one content with resized arguments
WotsInputs ==
  {ExactInput(s, p, 1, d) : s \in 1..(1 + MaxSeed), p \in 1..2, d \in WotsDigests}
  \cup Resized(ExactInput(1, 1, 1, Digest(0, 18, 0)))
  \cup {WotsInput(Bytes(n, 1), Bytes(n, 1), Addr(AddrWords + n - paramSN, 1),
                  Msg(Digest(0, 18, 0), n), wotsSigBytes + 2 * (n - paramSN) * paramSN,
                  wotsSigBytes + 2 * (n - paramSN) * paramSN) : n \in {paramSN + 1}}

WotsInit ==
  /\ pc = "keygen"
  /\ wIn \in WotsInputs
  /\ wIn2 = NoInput
  /\ wPk = NotRun /\ wSig = NotRun /\ wRec = NotRun /\ wRec2 = NotRun
  /\ t2Pk = T2Panic /\ t2Sig = T2Panic /\ t2Rec = T2Panic
  /\ wAcct = "not run"
  /\ EncIdle
  /\ ParIdle
  /\ MonIdle
  /\ CallIdle

DoKeyGen ==
  /\ pc = "keygen"
  /\ wPk' = WotsPkGen(wIn.pk, wIn.seed, wIn.pubSeed, wIn.addr)
  /\ pc' = "sign"
  /\ UNCHANGED <<callVars, monVars, encVars, parVars, wIn, wSig, wRec, t2Pk, t2Sig, t2Rec, wAcct, wIn2, wRec2>>

DoSign ==
  /\ pc = "sign"
  /\ wSig' = WotsSign(wIn.sig, wIn.msg, wIn.seed, wIn.pubSeed, wIn.addr)
  /\ pc' = "recover"
  /\ UNCHANGED <<callVars, monVars, encVars, parVars, wIn, wPk, wRec, t2Pk, t2Sig, t2Rec, wAcct, wIn2, wRec2>>

\* recovery from whatever the signature buffer holds after DoSign
DoRecover ==
  /\ pc = "recover"
  /\ wRec' = WotsPkFromSig(wIn.pk, wSig.buf, wIn.msg, wIn.pubSeed, wIn.addr)
  /\ pc' = "t2keygen"
  /\ UNCHANGED <<callVars, monVars, encVars, parVars, wIn, wPk, wSig, t2Pk, t2Sig, t2Rec, wAcct, wIn2, wRec2>>

\* the tool-2 variant takes the address as its 32 bytes
T2Addr(addr) == addrToBytes(withWord(addr, AddrWords, 0))

DoT2KeyGen ==
  /\ pc = "t2keygen"
  /\ t2Pk' = T2Result(WOTSPkGen(wIn.seed, wIn.pubSeed, T2Addr(wIn.addr)))
  /\ pc' = "t2sign"
  /\ UNCHANGED <<callVars, monVars, encVars, parVars, wIn, wPk, wSig, wRec, t2Sig, t2Rec, wAcct, wIn2, wRec2>>

DoT2Sign ==
  /\ pc = "t2sign"
  /\ t2Sig' = T2Result(WOTSSign(wIn.msg, wIn.backing, wIn.seed, wIn.pubSeed,
                                T2Addr(wIn.addr)))
  /\ pc' = "t2recover"
  /\ UNCHANGED <<callVars, monVars, encVars, parVars, wIn, wPk, wSig, wRec, t2Pk, t2Rec, wAcct, wIn2, wRec2>>

\* the tool-2 variant recovers from the signature made by tool-3
DoT2Recover ==
  /\ pc = "t2recover"
  /\ t2Rec' = T2Result(WOTSPkFromSig(wSig.buf, wIn.msg, wIn.backing, wIn.pubSeed,
                                     T2Addr(wIn.addr)))
  /\ pc' = "account"
  /\ UNCHANGED <<callVars, monVars, encVars, parVars, wIn, wPk, wSig, wRec, t2Pk, t2Sig, wAcct, wIn2, wRec2>>

DoGenerateAccount ==
  /\ pc = "account"
  /\ wAcct' = generateAccount(wIn.seed)
  /\ pc' = "wotsDone"
  /\ UNCHANGED <<callVars, monVars, encVars, parVars, wIn, wPk, wSig, wRec, t2Pk, t2Sig, t2Rec, wIn2, wRec2>>

WotsNext ==
  \/ DoKeyGen \/ DoSign \/ DoRecover
  \/ DoT2KeyGen \/ DoT2Sign \/ DoT2Recover
  \/ DoGenerateAccount

SpecWots == WotsInit /\ [][WotsNext]_vars

(***************************************************************************)
(* Claims about the key-pair engine (under SpecWots).                      *)
(***************************************************************************)
AfterRecover == pc \in {"t2keygen", "t2sign", "t2recover", "account", "wotsDone"}
AllSucceeded == wPk.err = "" /\ wSig.err = "" /\ wRec.err = ""

\* C1: the public key recovered from the signature of a digest is the
\* generated public key, in all 67 chains.
C1_RecoverIsPublicKey ==
  (AfterRecover /\ AllSucceeded)
    => \A k \in 1..wotsLen : wRec.buf.c[k] = wPk.buf.c[k]

\* a digest with a digit 0 (nothing revealed) and a digit 15 (the chain tip)
C1_Witness ==
  /\ AfterRecover /\ AllSucceeded
  /\ \E k \in 1..wotsLen : chainLengths(wIn.msg).val[k] = 0
  /\ \E k \in 1..wotsLen : chainLengths(wIn.msg).val[k] = wotsw - 1
  /\ wRec.buf.c = wPk.buf.c

\* word w (0..7) of the 32-byte address that was packed into p
PackedWord(p, w) ==
  LET byte(k) == IF k > paramSN - (Len(p) - 2) THEN p[k - (paramSN - (Len(p) - 2)) + 2] ELSE 0
  IN byte(4 * w + 1) * 16777216 + byte(4 * w + 2) * 65536 + byte(4 * w + 3) * 256
       + byte(4 * w + 4)

\* <<chain, hash step, selector>> of a packed address
PackedAddr(p) == <<PackedWord(p, 5), PackedWord(p, 6), PackedWord(p, 7)>>

\* the addresses hashed by the compression steps that lead from the block
\* `base` to the block `term`, the last step first
RECURSIVE StepAddrs(_, _)
StepAddrs(term, base) ==
  IF term = base THEN <<>>
  ELSE <<PackedAddr(term[3][4]), PackedAddr(term[4][3][4])>> \o StepAddrs(term[4][2], base)

Range(s) == {s[k] : k \in 1..Len(s)}

\* the addresses of chain `chain` with hash steps from..to
ChainSteps(chain, from, to) == {<<chain, h, s>> : h \in from..to, s \in {0, 1}}

RECURSIVE TotalLen(_, _)
TotalLen(f, n) == IF n = 0 THEN 0 ELSE Len(f[n]) + TotalLen(f, n - 1)

\* C21: in chain i with digit d, signing hashes exactly the addresses
\* (i, 0..d-1), recovery exactly (i, d..14), key generation (i, 0..14),
\* each with selectors 0 and 1; the first two are disjoint and their union
\* is the third, no address is hashed twice in an operation, and signing
\* and recovery make 67 * 15 compression steps together.
C21_ChainAddresses ==
  (AfterRecover /\ AllSucceeded) =>
    LET lengths == chainLengths(wIn.msg).val
        seeds == expandSeed(wIn.seed)
        signed == [k \in 1..wotsLen |-> StepAddrs(wSig.buf.c[k], seeds[k])]
        recovered == [k \in 1..wotsLen |-> StepAddrs(wRec.buf.c[k], wSig.buf.c[k])]
        generated == [k \in 1..wotsLen |-> StepAddrs(wPk.buf.c[k], seeds[k])]
    IN /\ \A k \in 1..wotsLen :
            /\ Range(signed[k]) = ChainSteps(k - 1, 0, lengths[k] - 1)
            /\ Range(recovered[k]) = ChainSteps(k - 1, lengths[k], wotsw - 2)
            /\ Range(generated[k]) = ChainSteps(k - 1, 0, wotsw - 2)
            /\ Range(signed[k]) \cap Range(recovered[k]) = {}
            /\ Range(signed[k]) \cup Range(recovered[k]) = Range(generated[k])
            /\ Len(signed[k]) = Cardinality(Range(signed[k]))
            /\ Len(recovered[k]) = Cardinality(Range(recovered[k]))
            /\ Len(generated[k]) = Cardinality(Range(generated[k]))
       /\ TotalLen(signed, wotsLen) + TotalLen(recovered, wotsLen) = 2 * wotsLen * (wotsw - 1)

\* a digest whose first byte is 0xF0: chain 0 is signed with 15 steps and
\* recovered with none, chain 1 the other way round
C21_Witness ==
  /\ AfterRecover /\ AllSucceeded
  /\ chainLengths(wIn.msg).val[1] = wotsw - 1
  /\ chainLengths(wIn.msg).val[2] = 0
  /\ wRec.buf.c[1] = wSig.buf.c[1]
  /\ Len(StepAddrs(wRec.buf.c[2], wSig.buf.c[2])) = 2 * (wotsw - 1)
  /\ StepAddrs(wSig.buf.c[1], expandSeed(wIn.seed)[1])[1] = <<0, wotsw - 2, 0>>
  /\ \E k \in 1..wotsLen : chainLengths(wIn.msg).val[k] \notin {0, wotsw - 1}

\* the call returned an error
Failed(r) == r.err \notin {"", "not run"}

\* C23: when WotsPkGen, WotsSign or WotsPkFromSig returns an error, the
\* output buffer holds what it held before the call, and the inputs
\* (digest, seeds, address, signature) are never written.
C23_ErrorLeavesBuffers ==
  /\ [](Failed(wPk) => wPk.buf = wIn.pk)
  /\ [](Failed(wSig) => wSig.buf = wIn.sig)
  /\ [](Failed(wRec) => wRec.buf = wIn.pk)
  /\ [][wIn # NoInput => wIn' = wIn]_vars
  /\ [][wSig # NotRun => wSig' = wSig]_vars

\* a seed of the wrong length with buffers large enough to be written
C23_Witness ==
  /\ AfterRecover
  /\ wIn.sig.n >= wotsSigBytes /\ wIn.pk.n >= wotsSigBytes
  /\ wSig.err = "seed must be 32 bytes"
  /\ wPk.err = "seed must be 32 bytes"
  /\ wSig.buf.c[1] = <<"old", 1>> /\ wPk.buf.c[wotsLen] = <<"old", wotsLen>>
  /\ wRec.err = "" /\ wRec.buf # wIn.pk

SameKey(a, b) ==
  /\ a.n >= wotsSigBytes /\ b.n >= wotsSigBytes
  /\ \A k \in 1..wotsLen : a.c[k] = b.c[k]

\* C6 as stated: for the same seeds, address and digest the tool-2 variant
\* returns the public key, the signature and the recovered key of tool-3,
\* and accepts the signature tool-3 made.
C6_Interchangeable ==
  (pc = "wotsDone" /\ AllSucceeded
     /\ Len(wIn.msg) = paramSN /\ wIn.sig.n = wotsSigBytes /\ wIn.pk.n = wotsSigBytes)
    => /\ t2Pk.ok /\ SameKey(t2Pk.buf, wPk.buf)
       /\ t2Sig.ok /\ SameKey(t2Sig.buf, wSig.buf)
       /\ t2Rec.ok /\ SameKey(t2Rec.buf, wRec.buf) /\ SameKey(t2Rec.buf, t2Pk.buf)

\* the part of C6 that the code has: both key generations agree
C6_SamePublicKey ==
  (pc = "wotsDone" /\ AllSucceeded) => (t2Pk.ok /\ SameKey(t2Pk.buf, wPk.buf))

\* a buffer of n bytes holding other earlier content
AltBuf(n) == Buf(n, [k \in 1..(n \div paramSN) |-> <<"alt", k>>])

\* res is the result of an operation on the buffer in, alt its result on a
\* buffer of the same size with other content
OutputIs2144(res, in, alt) ==
  res.err = "" =>
    /\ res.buf.n = in.n
    /\ Len(res.buf.c) = Len(in.c)
    /\ \A k \in 1..Len(in.c) :
         IF k <= wotsLen
         THEN res.buf.c[k] = alt.buf.c[k] /\ res.buf.c[k] # in.c[k]
         ELSE res.buf.c[k] = in.c[k]

\* C8: a successful WotsPkGen, WotsSign or WotsPkFromSig overwrites each of
\* the 67 chunks of its output buffer with a value that does not depend on
\* what the buffer held, and leaves the bytes from offset 2144 on unchanged.
C8_Exactly2144Bytes ==
  /\ pc = "sign" =>
       OutputIs2144(wPk, wIn.pk,
                    WotsPkGen(AltBuf(wIn.pk.n), wIn.seed, wIn.pubSeed, wIn.addr))
  /\ pc = "recover" =>
       OutputIs2144(wSig, wIn.sig,
                    WotsSign(AltBuf(wIn.sig.n), wIn.msg, wIn.seed, wIn.pubSeed, wIn.addr))
  /\ pc = "t2keygen" =>
       OutputIs2144(wRec, wIn.pk,
                    WotsPkFromSig(AltBuf(wIn.pk.n), wSig.buf, wIn.msg, wIn.pubSeed, wIn.addr))

\* a signature written into a buffer of 2208 bytes for a digest with a
\* digit 0 (a chain walk of no steps)
C8_Witness ==
  /\ AfterRecover /\ wSig.err = ""
  /\ wSig.buf.n > wotsSigBytes
  /\ \E k \in 1..wotsLen : chainLengths(wIn.msg).val[k] = 0
  /\ wSig.buf.c[wotsLen + 1] = wIn.sig.c[wotsLen + 1]

(***************************************************************************)
(* Sensitivity runs: a signature is made and recovered from, then one byte *)
(* of one input of the recovery is changed and the recovery is run again.  *)
(***************************************************************************)
SensBases == {ExactInput(1, 1, 1, d) : d \in WotsDigests}

\* the byte positions and the amounts by which one byte is changed
BytePos == {1, paramSN}
ByteDeltas == {1, 16}

\* the signature chunks in which one byte is changed
SigPos == {1, wotsLen1, wotsLen}

\* a 32-byte block that differs from block b in one byte
FlipBlock(b) == <<"flip", 0, b>>

SensInit ==
  /\ pc = "sensSign"
  /\ wIn \in SensBases
  /\ wIn2 = NoInput
  /\ wPk = NotRun /\ wSig = NotRun /\ wRec = NotRun /\ wRec2 = NotRun
  /\ t2Pk = T2Panic /\ t2Sig = T2Panic /\ t2Rec = T2Panic
  /\ wAcct = "not run"
  /\ EncIdle
  /\ ParIdle
  /\ MonIdle
  /\ CallIdle

SensSign ==
  /\ pc = "sensSign"
  /\ wSig' = WotsSign(wIn.sig, wIn.msg, wIn.seed, wIn.pubSeed, wIn.addr)
  /\ pc' = "sensRecover"
  /\ UNCHANGED <<callVars, monVars, encVars, parVars, wIn, wPk, wRec, t2Pk, t2Sig, t2Rec, wAcct, wIn2, wRec2>>

SensRecover ==
  /\ pc = "sensRecover"
  /\ wRec' = WotsPkFromSig(wIn.pk, wSig.buf, wIn.msg, wIn.pubSeed, wIn.addr)
  /\ pc' = "tamper"
  /\ UNCHANGED <<callVars, monVars, encVars, parVars, wIn, wPk, wSig, t2Pk, t2Sig, t2Rec, wAcct, wIn2, wRec2>>

\* the inputs of the second recovery: those of the first, with the signature
\* that was made, and one byte changed
Tampered(in) ==
  /\ pc = "tamper"
  /\ wIn2' = in
  /\ pc' = "sensRecover2"
  /\ UNCHANGED <<callVars, monVars, encVars, parVars, wIn, wPk, wSig, wRec, t2Pk, t2Sig, t2Rec, wAcct, wRec2>>

TamperDigest ==
  \E i \in BytePos, d \in ByteDeltas :
    Tampered([wIn EXCEPT !.sig = wSig.buf, !.msg[i] = (@ + d) % 256])

TamperSignature ==
  \E k \in SigPos :
    Tampered([wIn EXCEPT !.sig = [wSig.buf EXCEPT !.c[k] = FlipBlock(@)]])

TamperPubSeed ==
  \E i \in BytePos, d \in ByteDeltas :
    Tampered([wIn EXCEPT !.sig = wSig.buf, !.pubSeed[i] = (@ + d) % 256])

\* one byte of one address word: its low byte or its high byte
TamperAddr ==
  \E w \in 1..AddrWords, d \in {1, 16777216} :
    Tampered([wIn EXCEPT !.sig = wSig.buf, !.addr[w] = @ + d])

SensRecover2 ==
  /\ pc = "sensRecover2"
  /\ wRec2' = WotsPkFromSig(wIn2.pk, wIn2.sig, wIn2.msg, wIn2.pubSeed, wIn2.addr)
  /\ pc' = "sensDone"
  /\ UNCHANGED <<callVars, monVars, encVars, parVars, wIn, wPk, wSig, wRec, t2Pk, t2Sig, t2Rec, wAcct, wIn2>>

SensNext ==
  \/ SensSign \/ SensRecover
  \/ TamperDigest \/ TamperSignature \/ TamperPubSeed \/ TamperAddr
  \/ SensRecover2

SpecSens == SensInit /\ [][SensNext]_vars

(***************************************************************************)
(* Claims about the sensitivity of the recovery (under SpecSens).          *)
(***************************************************************************)
SensDone == pc = "sensDone" /\ wRec.err = "" /\ wRec2.err = ""

\* the one changed byte lies in address word 5, 6 or 7 (chain, hash, keyAndMask)
OverwrittenWordChanged ==
  /\ \E w \in 6..AddrWords : wIn2.addr[w] # wIn.addr[w]
  /\ \A w \in 1..5 : wIn2.addr[w] = wIn.addr[w]

\* C5 as stated: changing any single byte of the digest, the signature, the
\* public seed or the address (any of its 8 words) changes the recovered
\* public key.
C5_AnyByteChangesKey ==
  SensDone => ~SameKey(wRec2.buf, wRec.buf)

\* C5 amended: changing a single byte of the digest, of the signature, of
\* the public seed or of address words 0..4 changes the recovered public
\* key; changing a byte of address word 5, 6 or 7 never changes it.
C5_SensitiveInputs ==
  SensDone => (SameKey(wRec2.buf, wRec.buf) <=> OverwrittenWordChanged)

\* the keyAndMask word of the address was changed and the key is the same
C5_Witness ==
  /\ SensDone
  /\ wIn2.addr[AddrWords] # wIn.addr[AddrWords]
  /\ SameKey(wRec2.buf, wRec.buf)

(***************************************************************************)
(* Parallel runs: the chain loop of one operation with each chain of       *)
(* ParProcs as its own process, every statement one atomic step.  Each     *)
(* chain walks ParSteps hash steps from step 0.  The processes of tool-3   *)
(* run first, then those of the tool-2 variant.                            *)
(*   tool-3: the loop body makes chainAddr, a fresh slice of the           *)
(*           iteration, and genChain makes a fresh hashAddr per step; the  *)
(*           chains share addr, pubSeed and expandedSeed, which they only  *)
(*           read, and write disjoint chunks of pk.                        *)
(*   tool-2: every chain works on the one wotsAddr through a pointer.      *)
(***************************************************************************)
parSeed == Bytes(paramSN, 1)
parPubSeed == Bytes(paramSN, 2)
parAddr == Addr(AddrWords, 1)

\* the hash step at which a walk of ParSteps steps from step 0 ends
parEnd == Min(0 + ParSteps, wotsw)

\* mutant: chainAddr is one variable shared by all iterations
newChainAddrMutShared(mem, i, addr) ==
  [k \in DOMAIN mem |-> withChainAddr(addr, i)]

\* chainAddr := withChainAddr(addr, uint32(i)): a variable of iteration i
newChainAddr(mem, i, addr) ==
  [mem EXCEPT ![i] = withChainAddr(addr, i)]

ParInit ==
  /\ pc = "par3"
  /\ chainAddr = [i \in ParProcs |-> <<>>]
  /\ par3 = [i \in ParProcs |-> [NoProc EXCEPT !.pc = "start"]]
  /\ out3 = [i \in ParProcs |-> <<"old", i + 1>>]
  /\ wotsAddr = bytes32ToWOTSAddress(T2Addr(parAddr))
  /\ par2 = [i \in ParProcs |-> [NoProc EXCEPT !.pc = "start"]]
  /\ out2 = [i \in ParProcs |-> <<"zero", 0>>]
  /\ EncIdle
  /\ WotsIdle
  /\ MonIdle
  /\ CallIdle

\* ---- tool-3: chain i of the loop of WotsPkGen / WotsSign
\* chainAddr := withChainAddr(addr, i); genChain: copy(out, in), copy(current, in)
P3Start(i) ==
  /\ pc = "par3" /\ par3[i].pc = "start"
  /\ chainAddr' = newChainAddr(chainAddr, i, parAddr)
  /\ out3' = [out3 EXCEPT ![i] = expandSeed(parSeed)[i + 1]]
  /\ par3' = [par3 EXCEPT ![i] = [pc |-> "walk", j |-> 0,
                                  current |-> expandSeed(parSeed)[i + 1],
                                  key |-> <<"none", 0>>]]
  /\ UNCHANGED <<callVars, monVars, pc, encVars, wotsVars, wotsAddr, par2, out2>>

\* hashAddr := withHashAddr(addr, i); thashF(current, current, pubSeed, hashAddr)
P3Step(i) ==
  /\ pc = "par3" /\ par3[i].pc = "walk" /\ par3[i].j < parEnd
  /\ par3' = [par3 EXCEPT ![i].current =
                            thashF(@, parPubSeed, withHashAddr(chainAddr[i], par3[i].j)),
                          ![i].j = @ + 1]
  /\ UNCHANGED <<callVars, monVars, pc, encVars, wotsVars, chainAddr, out3, wotsAddr, par2, out2>>

\* copy(out, current)
P3Finish(i) ==
  /\ pc = "par3" /\ par3[i].pc = "walk" /\ par3[i].j >= parEnd
  /\ out3' = [out3 EXCEPT ![i] = par3[i].current]
  /\ par3' = [par3 EXCEPT ![i].pc = "done"]
  /\ UNCHANGED <<callVars, monVars, pc, encVars, wotsVars, chainAddr, wotsAddr, par2, out2>>

P3Join ==
  /\ pc = "par3" /\ \A i \in ParProcs : par3[i].pc = "done"
  /\ pc' = "par2"
  /\ UNCHANGED <<callVars, monVars, encVars, wotsVars, parVars>>

\* ---- tool-2 variant: chain i of the loop of WOTSPkGen / WOTSSign
\* wotsAddr.setChainAddr(i); genChain: out := copy of seeds[i]
P2SetChain(i) ==
  /\ pc = "par2" /\ par2[i].pc = "start"
  /\ wotsAddr' = setChainAddr(wotsAddr, i)
  /\ par2' = [par2 EXCEPT ![i] = [pc |-> "loop", j |-> 0,
                                  current |-> T2expandSeed(parSeed)[i + 1],
                                  key |-> <<"none", 0>>]]
  /\ UNCHANGED <<callVars, monVars, pc, encVars, wotsVars, chainAddr, par3, out3, out2>>

\* genChain: i < start+steps && i < WOTSW; addr.setHashAddr(i)
P2SetHash(i) ==
  /\ pc = "par2" /\ par2[i].pc = "loop" /\ par2[i].j < parEnd
  /\ wotsAddr' = setHashAddr(wotsAddr, par2[i].j)
  /\ par2' = [par2 EXCEPT ![i].pc = "km0"]
  /\ UNCHANGED <<callVars, monVars, pc, encVars, wotsVars, chainAddr, par3, out3, out2>>

\* thashF: addr.setKeyAndMask(0)
P2KeyMask0(i) ==
  /\ pc = "par2" /\ par2[i].pc = "km0"
  /\ wotsAddr' = setKeyAndMask(wotsAddr, 0)
  /\ par2' = [par2 EXCEPT ![i].pc = "key"]
  /\ UNCHANGED <<callVars, monVars, pc, encVars, wotsVars, chainAddr, par3, out3, out2>>

\* thashF: key := prf(addrToBytes(*addr), pubSeed)
P2Key(i) ==
  /\ pc = "par2" /\ par2[i].pc = "key"
  /\ par2' = [par2 EXCEPT ![i].key = T2prf(addrToBytes(wotsAddr), parPubSeed),
                          ![i].pc = "km1"]
  /\ UNCHANGED <<callVars, monVars, pc, encVars, wotsVars, chainAddr, par3, out3, wotsAddr, out2>>

\* thashF: addr.setKeyAndMask(1)
P2KeyMask1(i) ==
  /\ pc = "par2" /\ par2[i].pc = "km1"
  /\ wotsAddr' = setKeyAndMask(wotsAddr, 1)
  /\ par2' = [par2 EXCEPT ![i].pc = "mask"]
  /\ UNCHANGED <<callVars, monVars, pc, encVars, wotsVars, chainAddr, par3, out3, out2>>

\* thashF: bitmask := prf(addrToBytes(*addr), pubSeed); out = sha256(buf)
P2Hash(i) ==
  /\ pc = "par2" /\ par2[i].pc = "mask"
  /\ par2' = [par2 EXCEPT ![i].current =
                            Sha256(T2paddingF, par2[i].key,
                                   Xor(@, T2prf(addrToBytes(wotsAddr), parPubSeed))),
                          ![i].j = @ + 1,
                          ![i].pc = "loop"]
  /\ UNCHANGED <<callVars, monVars, pc, encVars, wotsVars, chainAddr, par3, out3, wotsAddr, out2>>

\* copy(pk[i*PARAMSN:], chainResult)
P2Finish(i) ==
  /\ pc = "par2" /\ par2[i].pc = "loop" /\ par2[i].j >= parEnd
  /\ out2' = [out2 EXCEPT ![i] = par2[i].current]
  /\ par2' = [par2 EXCEPT ![i].pc = "done"]
  /\ UNCHANGED <<callVars, monVars, pc, encVars, wotsVars, chainAddr, par3, out3, wotsAddr>>

P2Join ==
  /\ pc = "par2" /\ \A i \in ParProcs : par2[i].pc = "done"
  /\ pc' = "parDone"
  /\ UNCHANGED <<callVars, monVars, encVars, wotsVars, parVars>>

ParNext ==
  \/ \E i \in ParProcs : P3Start(i)
  \/ \E i \in ParProcs : P3Step(i)
  \/ \E i \in ParProcs : P3Finish(i)
  \/ P3Join
  \/ \E i \in ParProcs : P2SetChain(i)
  \/ \E i \in ParProcs : P2SetHash(i)
  \/ \E i \in ParProcs : P2KeyMask0(i)
  \/ \E i \in ParProcs : P2Key(i)
  \/ \E i \in ParProcs : P2KeyMask1(i)
  \/ \E i \in ParProcs : P2Hash(i)
  \/ \E i \in ParProcs : P2Finish(i)
  \/ P2Join

SpecPar == ParInit /\ [][ParNext]_vars

(***************************************************************************)
(* Claims about the chains run in parallel (under SpecPar).                *)
(***************************************************************************)
\* what the sequential loop leaves in chunk i
Seq3(i) ==
  genChain(<<"old", i + 1>>, expandSeed(parSeed)[i + 1], 0, ParSteps, parPubSeed,
           withChainAddr(parAddr, i))

Seq2(i) ==
  T2chainsLoop(0, Cardinality(ParProcs), T2expandSeed(parSeed),
               [k \in 1..wotsLen |-> 0], [k \in 1..wotsLen |-> ParSteps], parPubSeed,
               bytes32ToWOTSAddress(T2Addr(parAddr))).out[i + 1]

MaxHeight == 6
MaxElapsed == 20
MaxTimeout == 120

CHECK_MEMPOOL_INTERVAL == 5
maxRetries == 5
firstCheckWait == 15
minute == 60

\* the hash the node gives the signed transaction
TxHash == <<"0x", "tx">>

TrimPrefix(s) == IF Len(s) > 0 /\ s[1] = "0x" THEN Tail(s) ELSE s

\* strings.Contains(body, id) for a body that holds TxHash iff present
Contains(present, id) == id = <<>> \/ (present /\ id = TrimPrefix(TxHash))

\* the outcomes of one call to the node: TRUE when it returns without error
ApiResults == IF apiReliable THEN {TRUE} ELSE BOOLEAN

CheckMempool(id, ok) ==
  /\ ok
  /\ \/ mempool /\ TrimPrefix(TxHash) = TrimPrefix(id)
     \/ Contains(mempool, TrimPrefix(id))

SubmitTransaction(ok) == IF ok THEN TxHash ELSE <<>>

VerifyTransactionInBlock(blockHeight, id, ok) ==
  /\ ok
  /\ \/ txBlock = blockHeight /\ TrimPrefix(TxHash) = TrimPrefix(id)
     \/ Contains(txBlock = blockHeight, TrimPrefix(id))

\* status 200 iff the node knows the hash "0x" + id in some block
DirectlyCheckTransaction(id, ok) ==
  ok /\ txBlock # 0 /\ <<"0x">> \o TrimPrefix(id) = TxHash

IsBlockChangedMutNotStrict(prevBlock, ok) ==
  IF ~ok THEN [changed |-> FALSE, block |-> prevBlock]
  ELSE [changed |-> height >= prevBlock, block |-> height]

IsBlockChanged(prevBlock, ok) ==
  IF ~ok THEN [changed |-> FALSE, block |-> prevBlock]
  ELSE [changed |-> height > prevBlock, block |-> height]

monitorTimeoutMutNoExtra == timeout * minute

monitorTimeout ==
  timeout * minute
    + (IF confirmations > 1 THEN (confirmations - 1) * 2 * minute ELSE 0)

\* the clock is followed as long as it can change a test of the loop: to the
\* first check after the timeout when the timeout is at most MaxTimeout, to
\* MaxElapsed otherwise (the timeout is then out of reach)
ClockMax ==
  IF monitorTimeout > MaxTimeout THEN MaxElapsed
  ELSE IF monitorTimeout + CHECK_MEMPOOL_INTERVAL < firstCheckWait THEN firstCheckWait
  ELSE monitorTimeout + CHECK_MEMPOOL_INTERVAL

Sleep == elapsed' = Min(elapsed + CHECK_MEMPOOL_INTERVAL, ClockMax)

\* the flags of a run
Confirmations == {1, 2}
Timeouts == {0, 120}

MonInit ==
  /\ pc = "submit"
  /\ EncIdle
  /\ WotsIdle
  /\ ParIdle
  /\ CallIdle
  /\ height = 1 /\ txBlock = 0 /\ mempool = FALSE /\ elapsed = 0
  /\ apiReliable \in BOOLEAN
  /\ keeptrying \in BOOLEAN
  /\ confirmations \in Confirmations
  /\ timeout \in Timeouts
  /\ txID = <<>> /\ submits = 0 /\ inMempool = FALSE /\ txConfirmed = FALSE
  /\ confirmBlockHeight = 0 /\ confirmedCount = 0 /\ lastCheckedBlock = 0
  /\ skipMempoolCheck = FALSE /\ failedAttempts = 0
  /\ verified = FALSE /\ lastMsg = NoMsg

\* ------------------------------------------------------------ the node
MonRunning == pc \in {"status", "loop", "block", "confirm", "newblock", "timeout"}

\* a block is produced; it may take the transaction out of the mempool
MineBlock ==
  /\ MonRunning
  /\ height < MaxHeight
  /\ height' = height + 1
  /\ \E take \in BOOLEAN :
       IF take /\ mempool /\ txBlock = 0
       THEN txBlock' = height + 1 /\ mempool' = FALSE
       ELSE UNCHANGED <<txBlock, mempool>>
  /\ UNCHANGED <<pc, callVars, encVars, wotsVars, parVars, elapsed, flagVars, loopVars>>

\* the block of the transaction is replaced by one without it
Reorg ==
  /\ MonRunning
  /\ txBlock # 0
  /\ txBlock' = 0
  /\ mempool' \in BOOLEAN
  /\ UNCHANGED <<pc, callVars, encVars, wotsVars, parVars, height, elapsed, flagVars, loopVars>>

\* the node drops the transaction from its mempool
DropFromMempool ==
  /\ MonRunning
  /\ mempool
  /\ mempool' = FALSE
  /\ UNCHANGED <<pc, callVars, encVars, wotsVars, parVars, height, txBlock, elapsed, flagVars,
                 loopVars>>

\* time passes while a call to the node is under way
Tick ==
  /\ pc \in {"loop", "block", "confirm", "newblock", "timeout"}
  /\ elapsed < ClockMax
  /\ Sleep
  /\ UNCHANGED <<pc, callVars, encVars, wotsVars, parVars, chainVars, flagVars, loopVars>>

\* ------------------------------------------------------------ main
\* SubmitTransaction(tx.String()): what a run that keeps a log of its
\* submissions adds to it
SendTxMutResigned(out) ==
  IF out = <<>> THEN out
  ELSE [out EXCEPT !.sent = Append(@, [out.tx EXCEPT !.signature = Len(out.sent) + 1])]

SendTx(out) == IF out = <<>> THEN out ELSE [out EXCEPT !.sent = Append(@, out.tx)]

\* the initial submission
MonSubmit ==
  /\ pc = "submit"
  /\ \E ok \in ApiResults :
       /\ submits' = submits + 1
       /\ IF ok
          THEN /\ txID' = TrimPrefix(SubmitTransaction(ok))
               /\ mempool' = TRUE
               /\ pc' = "status"
          ELSE /\ pc' = "exit"
               /\ UNCHANGED <<txID, mempool>>
  /\ callOut' = SendTx(callOut)
  /\ UNCHANGED <<callIn, encVars, wotsVars, parVars, height, txBlock, elapsed, flagVars,
                 inMempool, txConfirmed, confirmBlockHeight, confirmedCount,
                 lastCheckedBlock, skipMempoolCheck, failedAttempts, verified, lastMsg>>

\* the initial network status and the monitoring variables
MonStatus ==
  /\ pc = "status"
  /\ \E ok \in ApiResults :
       IF ok
       THEN /\ lastCheckedBlock' = height
            /\ inMempool' = FALSE /\ txConfirmed' = FALSE
            /\ confirmBlockHeight' = 0 /\ confirmedCount' = 0
            /\ skipMempoolCheck' = FALSE /\ failedAttempts' = 0
            /\ elapsed' = 0
            /\ pc' = "loop"
       ELSE /\ pc' = "exit"
            /\ UNCHANGED <<lastCheckedBlock, inMempool, txConfirmed, confirmBlockHeight,
                           confirmedCount, skipMempoolCheck, failedAttempts, elapsed>>
  /\ UNCHANGED <<callVars, encVars, wotsVars, parVars, chainVars, flagVars, txID, submits,
                 verified, lastMsg>>

\* the head of the loop: the mempool check and the wait before the first
\* block check
MonCheckMempool ==
  /\ pc = "loop"
  /\ \E ok \in ApiResults :
       LET found == confirmBlockHeight = 0 /\ ~skipMempoolCheck /\ CheckMempool(txID, ok)
           seen == inMempool \/ found
       IN /\ inMempool' = seen
          /\ IF ~seen /\ elapsed < firstCheckWait /\ confirmBlockHeight = 0
             THEN Sleep /\ pc' = "loop"
             ELSE pc' = "block" /\ UNCHANGED elapsed
  /\ UNCHANGED <<callVars, encVars, wotsVars, parVars, chainVars, flagVars, txID, submits,
                 txConfirmed, confirmBlockHeight, confirmedCount, lastCheckedBlock,
                 skipMempoolCheck, failedAttempts, verified, lastMsg>>

\* the block check
MonBlockCheck ==
  /\ pc = "block"
  /\ \E ok \in ApiResults :
       LET r == IsBlockChanged(lastCheckedBlock, ok)
       IN IF r.changed
          THEN /\ lastCheckedBlock' = r.block
               /\ pc' = IF confirmBlockHeight > 0 THEN "confirm" ELSE "newblock"
          ELSE /\ pc' = "timeout"
               /\ UNCHANGED lastCheckedBlock
  /\ UNCHANGED <<callVars, encVars, wotsVars, parVars, chainVars, elapsed, flagVars, txID, submits,
                 inMempool, txConfirmed, confirmBlockHeight, confirmedCount,
                 skipMempoolCheck, failedAttempts, verified, lastMsg>>

\* the rebroadcast of both branches, after cause has been printed
\* the test that ends the loop after a failed resubmission
retriesExhaustedMutNever(n) == FALSE
retriesExhausted(n) == n >= maxRetries

RebroadcastMutNoSubmit(cause, ok) ==
  /\ inMempool' = FALSE
  /\ skipMempoolCheck' = FALSE
  /\ lastMsg' = <<cause, "resubmitted">>
  /\ pc' = "timeout"
  /\ UNCHANGED <<submits, txID, failedAttempts, mempool, callOut>>

Rebroadcast(cause, ok) ==
  /\ inMempool' = FALSE
  /\ skipMempoolCheck' = FALSE
  /\ submits' = submits + 1
  /\ callOut' = SendTx(callOut)
  /\ txID' = TrimPrefix(SubmitTransaction(ok))
  /\ mempool' = IF ok /\ txBlock = 0 THEN TRUE ELSE mempool
  /\ IF ok
     THEN /\ lastMsg' = <<cause, "resubmitted">>
          /\ pc' = "timeout"
          /\ UNCHANGED failedAttempts
     ELSE /\ failedAttempts' = failedAttempts + 1
          /\ IF retriesExhausted(failedAttempts + 1)
             THEN lastMsg' = <<cause, "max retries">> /\ pc' = "done"
             ELSE lastMsg' = <<cause, "resubmit failed">> /\ pc' = "timeout"

\* a block change with a confirmation block: is the transaction still there
MonVerifyConfirm ==
  /\ pc = "confirm"
  /\ \E okV, okS \in ApiResults :
       LET v == VerifyTransactionInBlock(confirmBlockHeight, txID, okV)
       IN /\ verified' = v
          /\ IF v
             THEN /\ confirmedCount' = confirmedCount + 1
                  /\ inMempool' = FALSE
                  /\ IF confirmedCount + 1 >= confirmations
                     THEN /\ txConfirmed' = TRUE
                          /\ lastMsg' = <<"confirmation", "confirmed">>
                          /\ pc' = "done"
                     ELSE /\ lastMsg' = <<"confirmation", "counted">>
                          /\ pc' = "timeout"
                          /\ UNCHANGED txConfirmed
                  /\ UNCHANGED <<confirmBlockHeight, txID, submits, mempool,
                                 skipMempoolCheck, failedAttempts, callOut>>
             ELSE /\ confirmBlockHeight' = 0
                  /\ confirmedCount' = 0
                  /\ UNCHANGED txConfirmed
                  /\ IF keeptrying
                     THEN Rebroadcast("reorg", okS)
                     ELSE /\ lastMsg' = <<"reorg", "orphaned">>
                          /\ pc' = "done"
                          /\ UNCHANGED <<inMempool, skipMempoolCheck, submits, txID,
                                         failedAttempts, mempool, callOut>>
  /\ UNCHANGED <<callIn, encVars, wotsVars, parVars, height, txBlock, elapsed, flagVars,
                 lastCheckedBlock>>

\* a block change without a confirmation block: is the transaction in the
\* new block
MonVerifyNew ==
  /\ pc = "newblock"
  /\ \E okV, okM, okD, okS \in ApiResults :
       LET newBlock == lastCheckedBlock
           inBlock == VerifyTransactionInBlock(newBlock, txID, okV)
           left == ~inBlock /\ inMempool /\ ~CheckMempool(txID, okM)
           directCheck == left /\ DirectlyCheckTransaction(txID, okD)
           v == inBlock \/ directCheck
       IN /\ verified' = v
          /\ IF left /\ ~directCheck
             THEN /\ IF keeptrying
                     THEN Rebroadcast("left mempool", okS)
                     ELSE /\ lastMsg' = <<"left mempool", "orphaned">>
                          /\ pc' = "done"
                          /\ UNCHANGED <<inMempool, skipMempoolCheck, submits, txID,
                                         failedAttempts, mempool, callOut>>
                  /\ UNCHANGED <<confirmBlockHeight, confirmedCount, txConfirmed>>
             ELSE /\ IF v
                     THEN /\ confirmBlockHeight' = newBlock
                          /\ confirmedCount' = 1
                          /\ inMempool' = FALSE
                          /\ IF confirmations <= 1
                             THEN /\ txConfirmed' = TRUE
                                  /\ lastMsg' = <<"found", "confirmed">>
                                  /\ pc' = "done"
                             ELSE /\ lastMsg' = <<"found", "counted">>
                                  /\ pc' = "timeout"
                                  /\ UNCHANGED txConfirmed
                     ELSE /\ pc' = "timeout"
                          /\ UNCHANGED <<confirmBlockHeight, confirmedCount, inMempool,
                                         txConfirmed, lastMsg>>
                  /\ UNCHANGED <<skipMempoolCheck, submits, txID, failedAttempts, mempool,
                                 callOut>>
  /\ UNCHANGED <<callIn, encVars, wotsVars, parVars, height, txBlock, elapsed, flagVars,
                 lastCheckedBlock>>

\* the end of an iteration: the timeout check and the sleep
MonTimeout ==
  /\ pc = "timeout"
  /\ IF elapsed > monitorTimeout
     THEN pc' = "done" /\ lastMsg' = <<"timeout", "timed out">> /\ UNCHANGED elapsed
     ELSE Sleep /\ pc' = "loop" /\ UNCHANGED lastMsg
  /\ UNCHANGED <<callVars, encVars, wotsVars, parVars, chainVars, flagVars, txID, submits,
                 inMempool, txConfirmed, confirmBlockHeight, confirmedCount,
                 lastCheckedBlock, skipMempoolCheck, failedAttempts, verified>>

MonMain ==
  \/ MonSubmit
  \/ MonStatus
  \/ MonCheckMempool
  \/ MonBlockCheck
  \/ MonVerifyConfirm
  \/ MonVerifyNew
  \/ MonTimeout

MonNext ==
  \/ MineBlock
  \/ Reorg
  \/ DropFromMempool
  \/ Tick
  \/ MonMain

\* the runs whose clock is followed to MaxElapsed at most
MonInitShort == MonInit /\ ClockMax <= MaxElapsed

SpecMon == MonInitShort /\ [][MonNext]_vars

\* main is not blocked for ever: each call to the node returns
FairSpecMon == MonInitShort /\ [][MonNext]_vars /\ WF_vars(MonMain)

\* the runs with -timeout 0, whose clock is followed past the timeout; with
\* -keeptrying the calls to the node succeed
MonInitTimeout == MonInit /\ timeout = 0 /\ (apiReliable \/ ~keeptrying)

FairSpecTimeout == MonInitTimeout /\ [][MonNext]_vars /\ WF_vars(MonMain)

(***************************************************************************)
(* Claims about the monitoring loop.                                       *)
(***************************************************************************)
\* the timeout cannot be reached by the clock
NoTimeout == monitorTimeout > MaxTimeout

\* C9 as stated: when every call to the node succeeds and the timeout does
\* not elapse, a transaction that is included in a block and stays there is
\* eventually reported confirmed.
C9_EventuallyConfirmed ==
  (apiReliable /\ NoTimeout /\ <>[](txBlock # 0)) => <>txConfirmed

\* C10: when a block change is observed and the transaction is not found in
\* its confirmation block, confirmBlockHeight and confirmedCount are reset
\* to 0; with -keeptrying SubmitTransaction is called in that iteration,
\* without it the loop ends and SubmitTransaction is not called.
C10_ReorgHandling ==
  [][(pc = "confirm" /\ pc' # "confirm" /\ ~verified') =>
       /\ confirmBlockHeight' = 0 /\ confirmedCount' = 0
       /\ keeptrying => submits' = submits + 1
       /\ ~keeptrying => (pc' = "done" /\ submits' = submits /\ ~txConfirmed')]_vars

\* the transaction was found in a block, that block was replaced, and the
\* tool running with -keeptrying has resubmitted it
C10_Witness ==
  /\ keeptrying /\ lastMsg = <<"reorg", "resubmitted">>
  /\ pc = "timeout" /\ submits = 2 /\ txBlock = 0 /\ mempool
  /\ confirmBlockHeight = 0 /\ confirmedCount = 0

\* the loop has ended (break) or main has left through os.Exit
MonEnded == pc \in {"done", "exit"}

\* what the timeout is to be: -timeout minutes and 2 minutes for each
\* confirmation beyond the first
ExpectedTimeout ==
  timeout * minute + (IF confirmations >= 1 THEN (confirmations - 1) * 2 * minute ELSE 0)

LostFromMempool ==
  pc = "newblock" /\ inMempool /\ ~mempool /\ txBlock = 0 /\ txID # <<>>

C24_ConfirmedOnlyIfInBlock ==
  txConfirmed => (txID = TrimPrefix(TxHash) /\ txBlock # 0)

\* C27: in every state of the monitoring loop, confirmBlockHeight = 0
\* implies confirmedCount = 0; confirmBlockHeight > 0 implies
\* confirmedCount >= 1 and lastCheckedBlock >= confirmBlockHeight +
\* confirmedCount - 1; lastCheckedBlock never decreases; and txConfirmed
\* implies confirmedCount >= 1 and confirmedCount >= confirmations.
C27_LoopInvariants ==
  /\ [](confirmBlockHeight = 0 => confirmedCount = 0)
  /\ [](confirmBlockHeight > 0 =>
          /\ confirmedCount >= 1
          /\ lastCheckedBlock >= confirmBlockHeight + confirmedCount - 1)
  /\ [][lastCheckedBlock' >= lastCheckedBlock]_vars
  /\ [](txConfirmed => confirmedCount >= 1 /\ confirmedCount >= confirmations)

\* two confirmations were asked for and counted, the second one at a block
\* change that skipped a height
C27_Witness ==
  /\ confirmations = 2 /\ txConfirmed /\ confirmedCount = 2
  /\ confirmBlockHeight > 0
  /\ lastCheckedBlock > confirmBlockHeight + confirmedCount - 1

Limb == 65536

\* the carry out of limb k when a, b and the carry c0 are added
RECURSIVE CarryOut(_, _, _, _)
CarryOut(a, b, k, c0) ==
  IF k > Len(a) THEN c0
  ELSE (a[k] + b[k] + CarryOut(a, b, k + 1, c0)) \div Limb

\* a + b + c0 modulo Limb ^ Len(a)
AddLimbs(a, b, c0) ==
  [k \in 1..Len(a) |-> (a[k] + b[k] + CarryOut(a, b, k + 1, c0)) % Limb]

NotLimbs(b) == [k \in 1..Len(b) |-> Limb - 1 - b[k]]

\* uint64 +, - and <
add64(a, b) == AddLimbs(a, b, 0)
sub64(a, b) == AddLimbs(a, NotLimbs(b), 1)
lt64(a, b) == CarryOut(a, NotLimbs(b), 1, 1) = 0

U64(n) == <<0, 0, n \div Limb, n % Limb>>
MaxUint64 == <<Limb - 1, Limb - 1, Limb - 1, Limb - 1>>
MaxInt64 == <<(Limb \div 2) - 1, Limb - 1, Limb - 1, Limb - 1>>

\* the sum of the amounts of the entries, as the loops compute it
RECURSIVE sumAmounts(_, _)
sumAmounts(entries, k) ==
  IF k = 0 THEN U64(0) ELSE add64(sumAmounts(entries, k - 1), entries[k])

(***************************************************************************)
(* tool-3 main and the head of wallet-tool main: one run on the flags      *)
(* callIn, whose progress is callOut.                                      *)
(***************************************************************************)
\* lengths of -src and -dst, of -source-pk and -change-pk
TagLens == {0, 38, 40}
PkLens == {0, 10, 4288, 4416}
Balances == {U64(0), U64(1000), MaxUint64}
Amounts == {U64(1), U64(400), MaxInt64}
Fees == {U64(500), MaxUint64}

NoTx == [sendTotal |-> U64(0), changeTotal |-> U64(0), fee |-> U64(0)]

\* a run that has just started: nothing built, signed or printed
Started ==
  [status |-> "running", built |-> FALSE, tx |-> NoTx, signed |-> FALSE, json |-> FALSE]

Tool3Flags ==
  [tool : {"tool-3"}, src : TagLens, dst : TagLens, sourcePk : PkLens, changePk : PkLens,
   balance : Balances, amounts : {<<a>> : a \in Amounts}, amountSet : {TRUE},
   fee : Fees, secret : {TRUE}, keyMatches : BOOLEAN]

\* flags that the first validation of tool-3 refuses
Tool3Refused ==
  {[tool |-> "tool-3", src |-> 40, dst |-> 40, sourcePk |-> 4416, changePk |-> 4416,
    balance |-> U64(1000), amounts |-> <<U64(1)>>, amountSet |-> a,
    fee |-> U64(500), secret |-> s, keyMatches |-> TRUE] :
     a \in BOOLEAN, s \in BOOLEAN}

\* flags of the older variant of tool-3 (-wots-pk is sourcePk)
OldFlags ==
  [tool : {"tool-3 old"}, src : {0, 40}, dst : {40}, sourcePk : {0, 4416},
   changePk : {4416}, balance : {U64(1000)}, amounts : {<<U64(1)>>, <<U64(400)>>},
   amountSet : {TRUE}, fee : {U64(500)}, secret : BOOLEAN, keyMatches : BOOLEAN]

WalletFlags ==
  [tool : {"wallet-tool"}, src : {40}, dst : {40}, sourcePk : {4416}, changePk : {4416},
   balance : Balances,
   amounts : {<<a>> : a \in Amounts} \cup {<<a, b>> : a \in Amounts, b \in {U64(1), MaxUint64}},
   amountSet : {TRUE}, fee : Fees, secret : {TRUE}, keyMatches : {TRUE}]

ToolsInit ==
  /\ pc = "validate"
  /\ EncIdle
  /\ WotsIdle
  /\ ParIdle
  /\ MonIdle
  /\ callIn \in Tool3Flags \cup Tool3Refused \cup OldFlags \cup WalletFlags
  /\ callOut = Started

Exit(out) == [out EXCEPT !.status = "error"]

ToolsFrame == UNCHANGED <<callIn, encVars, wotsVars, parVars, monVars>>

\* tool-3: the validation of the flags
T3Validate ==
  /\ pc = "validate" /\ callIn.tool = "tool-3"
  /\ IF \/ callIn.src = 0 /\ callIn.src # 40
        \/ callIn.sourcePk = 0 /\ callIn.sourcePk # 2208 * 2
        \/ callIn.changePk = 0 /\ callIn.changePk # 2208 * 2
        \/ callIn.balance = U64(0)
        \/ callIn.dst = 0 /\ callIn.dst # 40
        \/ ~callIn.amountSet
        \/ ~callIn.secret
     THEN pc' = "done" /\ callOut' = Exit(callOut)
     ELSE pc' = "funds" /\ UNCHANGED callOut
  /\ ToolsFrame

\* tool-3: the balance check
T3Funds ==
  /\ pc = "funds" /\ callIn.tool = "tool-3"
  /\ IF lt64(callIn.balance, add64(callIn.amounts[1], callIn.fee))
     THEN pc' = "done" /\ callOut' = Exit(callOut)
     ELSE pc' = "build" /\ UNCHANGED callOut
  /\ ToolsFrame

\* tool-3: the transaction, its addresses and its amounts; the slice of a
\* public key shorter than 4288 characters panics
T3Build ==
  /\ pc = "build" /\ callIn.tool = "tool-3"
  /\ IF callIn.sourcePk < 2208 * 2 - 64 * 2 \/ callIn.changePk < 2208 * 2 - 64 * 2
     THEN /\ pc' = "done"
          /\ callOut' = [callOut EXCEPT !.status = "panic", !.built = TRUE]
     ELSE /\ pc' = "keycheck"
          /\ callOut' =
               [callOut EXCEPT
                  !.built = TRUE,
                  !.tx = [sendTotal |-> callIn.amounts[1],
                          changeTotal |->
                            sub64(sub64(callIn.balance, callIn.amounts[1]), callIn.fee),
                          fee |-> callIn.fee]]
  /\ ToolsFrame

\* tool-3: the address of the key of the secret against that of -source-pk
T3KeyCheck ==
  /\ pc = "keycheck" /\ callIn.tool = "tool-3"
  /\ IF ~callIn.keyMatches
     THEN pc' = "done" /\ callOut' = Exit(callOut)
     ELSE pc' = "sign" /\ UNCHANGED callOut
  /\ ToolsFrame

\* tool-3: the signature
T3Sign ==
  /\ pc = "sign" /\ callIn.tool = "tool-3"
  /\ pc' = "output"
  /\ callOut' = [callOut EXCEPT !.signed = TRUE]
  /\ ToolsFrame

\* tool-3: the JSON request
T3Output ==
  /\ pc = "output" /\ callIn.tool = "tool-3"
  /\ pc' = "done"
  /\ callOut' = [callOut EXCEPT !.json = TRUE, !.status = "ok"]
  /\ ToolsFrame

\* older variant of tool-3: the validation of the flags
OldValidate ==
  /\ pc = "validate" /\ callIn.tool = "tool-3 old"
  /\ IF callIn.src = 0 \/ callIn.dst = 0 \/ callIn.sourcePk = 0 \/ callIn.changePk = 0
        \/ ~callIn.secret
     THEN pc' = "done" /\ callOut' = Exit(callOut)
     ELSE pc' = "build" /\ UNCHANGED callOut
  /\ ToolsFrame

\* older variant of tool-3: the transaction and its amounts
OldBuild ==
  /\ pc = "build" /\ callIn.tool = "tool-3 old"
  /\ pc' = "sign"
  /\ callOut' =
       [callOut EXCEPT
          !.built = TRUE,
          !.tx = [sendTotal |-> callIn.amounts[1],
                  changeTotal |-> sub64(sub64(callIn.balance, callIn.amounts[1]), callIn.fee),
                  fee |-> callIn.fee]]
  /\ ToolsFrame

\* older variant of tool-3: the key of the secret and the signature
OldSign ==
  /\ pc = "sign" /\ callIn.tool = "tool-3 old"
  /\ pc' = "output"
  /\ callOut' = [callOut EXCEPT !.signed = TRUE]
  /\ ToolsFrame

\* older variant of tool-3: the JSON request
OldOutput ==
  /\ pc = "output" /\ callIn.tool = "tool-3 old"
  /\ pc' = "done"
  /\ callOut' = [callOut EXCEPT !.json = TRUE, !.status = "ok"]
  /\ ToolsFrame

\* wallet-tool: the balance check of main
WFunds ==
  /\ pc = "validate" /\ callIn.tool = "wallet-tool"
  /\ LET totalToSend == sumAmounts(callIn.amounts, Len(callIn.amounts))
         totalNeeded == add64(totalToSend, callIn.fee)
     IN IF lt64(callIn.balance, totalNeeded)
        THEN pc' = "done" /\ callOut' = Exit(callOut)
        ELSE pc' = "build" /\ UNCHANGED callOut
  /\ ToolsFrame

\* wallet-tool: CreateTransaction
WCreateTransaction ==
  /\ pc = "build" /\ callIn.tool = "wallet-tool"
  /\ LET totalToSend == sumAmounts(callIn.amounts, Len(callIn.amounts))
     IN callOut' =
          [callOut EXCEPT
             !.status = "ok", !.built = TRUE, !.signed = TRUE,
             !.tx = [sendTotal |-> totalToSend,
                     changeTotal |-> sub64(sub64(callIn.balance, totalToSend), callIn.fee),
                     fee |-> callIn.fee]]
  /\ pc' = "done"
  /\ ToolsFrame

ToolsNext ==
  \/ T3Validate
  \/ T3Funds
  \/ T3Build
  \/ T3KeyCheck
  \/ T3Sign
  \/ T3Output
  \/ OldValidate
  \/ OldBuild
  \/ OldSign
  \/ OldOutput
  \/ WFunds
  \/ WCreateTransaction

SpecTools == ToolsInit /\ [][ToolsNext]_vars

(***************************************************************************)
(* Claims about the runs of tool-3 main and of the head of wallet-tool     *)
(* main.                                                                   *)
(***************************************************************************)
\* numbers that cannot wrap: five limbs
Wide(a) == <<0>> \o a
TrueSum(a, b) == AddLimbs(a, b, 0)

\* amounts[1] + ... + amounts[k], as a true integer
RECURSIVE TrueTotal(_, _)
TrueTotal(amounts, k) ==
  IF k = 0 THEN Wide(U64(0)) ELSE TrueSum(TrueTotal(amounts, k - 1), Wide(amounts[k]))

\* what the run needs: the amounts and the fee, as a true integer
TrueNeeded == TrueSum(TrueTotal(callIn.amounts, Len(callIn.amounts)), Wide(callIn.fee))

\* the transaction has its amounts
AmountsSet ==
  /\ callIn.tool \in {"tool-3", "wallet-tool"}
  /\ callOut.built /\ callOut.status # "panic"

\* C12 as stated: a transaction is built only when balance >= amount + fee
\* as true integers, and then send total + change total + fee = balance.
C12_NoUnderfundedTransaction ==
  AmountsSet =>
    /\ ~lt64(Wide(callIn.balance), TrueNeeded)
    /\ TrueSum(TrueSum(Wide(callOut.tx.sendTotal), Wide(callOut.tx.changeTotal)),
               Wide(callOut.tx.fee)) = Wide(callIn.balance)

\* C13 as stated: tool-3 signs and prints the request only when the address
\* of the key of the secret is that of the source public key; when they
\* differ the run ends in an error, without a signature and without JSON.
C13_SignsOnlyMatchingKey ==
  callIn.tool \in {"tool-3", "tool-3 old"} =>
    /\ (callOut.signed \/ callOut.json) => callIn.keyMatches
    /\ (pc = "done" /\ ~callIn.keyMatches) => callOut.status # "ok"

\* C14 as stated: tool-3 ends in an error, with no transaction built, when
\* -src or -dst is not 40 characters long or -source-pk or -change-pk is
\* not 4416 characters long.
C14_WrongLengthsRefused ==
  (/\ callIn.tool = "tool-3"
   /\ \/ callIn.src # 40 \/ callIn.dst # 40
      \/ callIn.sourcePk # 4416 \/ callIn.changePk # 4416) =>
    /\ ~callOut.built
    /\ pc = "done" => callOut.status = "error"

(***************************************************************************)
(* wallet-tool VerifyCurrentIndex: one call on callIn, whose progress is   *)
(* callOut.  The address hash of a keypair is a free injective term of its *)
(* index; the node's answer to tag_resolve is part of the input.           *)
(***************************************************************************)
MaxStart == 5
MAX_INDEX_SEARCH == 10000

\* the address hash of the keypair that Next() returns when Index = i
keyHash(i) == <<"addr", i>>

\* indices near both ends of the search
NearIndices == (0 .. MaxStart) \cup {MAX_INDEX_SEARCH - 1, MAX_INDEX_SEARCH, MAX_INDEX_SEARCH + 1}

\* address hashes an on-chain address can end in
ChainHashes == {keyHash(j) : j \in NearIndices} \cup {<<"addr", -1>>}

\* the "0x" prefix of an address string, and characters that are not hex
Prefix == <<"0x", 0>>
NotHex == <<"zz", 0>>

\* what ResolveTag returns: an error, or the address string, here the "0x"
\* prefix (two characters) followed by 20-byte units
Resolutions ==
  {[err |-> TRUE, address |-> <<>>], [err |-> FALSE, address |-> <<>>],
   [err |-> FALSE, address |-> <<Prefix>>], [err |-> FALSE, address |-> <<Prefix, NotHex>>]}
    \cup {[err |-> FALSE, address |-> <<Prefix, keyHash(0), h>>] : h \in ChainHashes}
    \cup {[err |-> FALSE, address |-> <<Prefix, h>>] : h \in ChainHashes}

\* hex.DecodeString(resolved_tag[2:]): the units after the first two
\* characters, or "invalid" when they are not hex
DecodeResolved(address) ==
  IF NotHex \in {address[k] : k \in 2..Len(address)} THEN <<"invalid">>
  ELSE SubSeq(address, 2, Len(address))

IndexFlags ==
  [tool : {"VerifyCurrentIndex"}, startIndex : NearIndices, resolved : Resolutions,
   nextAdvances : BOOLEAN]

IndexStarted ==
  [status |-> "running", Index |-> 0, tagged_address_hash |-> <<>>, result |-> 0,
   via |-> "none"]

IndexInit ==
  /\ pc = "resolve"
  /\ EncIdle
  /\ WotsIdle
  /\ ParIdle
  /\ MonIdle
  /\ callIn \in IndexFlags
  /\ callOut = IndexStarted

\* keychain.Next(): the keypair of Index; the library may advance Index
AfterNext(index) == IF callIn.nextAdvances THEN index + 1 ELSE index

Return(i, via) ==
  /\ pc' = "done"
  /\ callOut' = [callOut EXCEPT !.status = "returned", !.result = i, !.via = via]

\* the first index of lo..hi-1 whose address hash is target, or -1
FirstMatch(lo, hi, target) ==
  LET hits == {i \in lo .. hi - 1 : keyHash(i) = target}
  IN  IF hits = {} THEN -1 ELSE CHOOSE i \in hits : \A k \in hits : i <= k

\* where the first search starts
searchFrom(index) == (IF index > 3 THEN index ELSE 3) - 3

\* where the second search ends
belowEndMutNone(startIndex) == 0
belowEnd(startIndex) == startIndex

\* index 0, its tag, ResolveTag and the decoding of the resolved address
VciResolve ==
  /\ pc = "resolve" /\ callIn.tool = "VerifyCurrentIndex"
  /\ LET decoded == DecodeResolved(callIn.resolved.address)
     IN  IF callIn.resolved.err \/ callIn.resolved.address = <<>>
         THEN Return(0, "new wallet")
         ELSE IF decoded = <<"invalid">> \/ Len(decoded) < 1
         THEN Return(callIn.startIndex, "fallback")
         ELSE /\ pc' = "start"
              /\ callOut' = [callOut EXCEPT !.Index = AfterNext(0),
                                            !.tagged_address_hash = decoded[Len(decoded)]]
  /\ ToolsFrame

\* the keypair of startIndex
VciStart ==
  /\ pc = "start" /\ callIn.tool = "VerifyCurrentIndex"
  /\ IF keyHash(callIn.startIndex) = callOut.tagged_address_hash
     THEN Return(callIn.startIndex, "start")
     ELSE /\ pc' = "search"
          /\ callOut' = [callOut EXCEPT !.Index = AfterNext(callIn.startIndex)]
  /\ ToolsFrame

\* the search up to MAX_INDEX_SEARCH
VciSearch ==
  /\ pc = "search" /\ callIn.tool = "VerifyCurrentIndex"
  /\ LET i == FirstMatch(searchFrom(callOut.Index), MAX_INDEX_SEARCH,
                         callOut.tagged_address_hash)
     IN  IF i >= 0 THEN Return(i, "search")
         ELSE pc' = "below" /\ UNCHANGED callOut
  /\ ToolsFrame

\* the search from 0 to startIndex, and the fallback to index 0
VciBelow ==
  /\ pc = "below" /\ callIn.tool = "VerifyCurrentIndex"
  /\ LET i == FirstMatch(0, belowEnd(callIn.startIndex), callOut.tagged_address_hash)
     IN  IF i >= 0 THEN Return(i, "below") ELSE Return(0, "not found")
  /\ ToolsFrame

IndexNext ==
  \/ VciResolve
  \/ VciStart
  \/ VciSearch
  \/ VciBelow

SpecIndex == IndexInit /\ [][IndexNext]_vars

\* the resolved address ends in the address hash h
ResolvesTo(h) ==
  /\ ~callIn.resolved.err
  /\ Len(callIn.resolved.address) >= 2
  /\ callIn.resolved.address[1] = Prefix
  /\ callIn.resolved.address[Len(callIn.resolved.address)] = h

VciReturned == callIn.tool = "VerifyCurrentIndex" /\ pc = "done"

\* C15: when the tag resolves to an on-chain address whose last 20 bytes
\* are the address hash of the keypair of some index j < 10000, the index
\* VerifyCurrentIndex returns has that address hash, whatever the cached
\* startIndex; when the keypair of startIndex has it, startIndex is returned.
C15_FindsCurrentIndex ==
  VciReturned =>
    \A j \in 0 .. MAX_INDEX_SEARCH - 1 :
      ResolvesTo(keyHash(j)) =>
        /\ keyHash(callOut.result) = keyHash(j)
        /\ keyHash(callIn.startIndex) = keyHash(j) => callOut.result = callIn.startIndex

\* a cached index that is too high: the key is found by the search from 0
C15_Witness ==
  /\ VciReturned
  /\ ResolvesTo(keyHash(1))
  /\ callIn.startIndex = MaxStart
  /\ callOut.via = "below"
  /\ callOut.result = 1

(***************************************************************************)
(* genChain, statement by statement: one run makes the calls of            *)
(* callIn.plan in turn, each call on the output of the one before it; the  *)
(* progress is callOut.  `used` lists the hash-step word of every address  *)
(* given to thashF.                                                        *)
(***************************************************************************)
chainPubSeed == Bytes(paramSN, 2)

\* 32-byte inputs of a walk: first chunks of expanded seeds
ChainInputs == {prf(ullToBytes(32, 0), Bytes(paramSN, s)) : s \in 0 .. MaxSeed}

ChainAddrs == {Addr(AddrWords, v) : v \in 0 .. 1}

\* one call <<start, steps>>, and the walk of a whole chain in two calls
SingleCalls == {<<<<start, steps>>>> : start \in 0 .. wotsw - 1, steps \in 0 .. wotsw - 1}
SplitCalls == {<<<<0, d>>, <<d, wotsw - 1 - d>>>> : d \in 0 .. wotsw - 1}

ChainFlags ==
  [tool : {"tool-3", "tool-2"}, in : ChainInputs, addr : ChainAddrs,
   plan : SingleCalls \cup SplitCalls]

ChainInit ==
  /\ pc = "call"
  /\ EncIdle
  /\ WotsIdle
  /\ ParIdle
  /\ MonIdle
  /\ callIn \in ChainFlags
  /\ callOut = [call |-> 1, i |-> 0, out |-> callIn.in, current |-> callIn.in,
                addr |-> IF callIn.tool = "tool-3" THEN callIn.addr
                         ELSE bytes32ToWOTSAddress(T2Addr(callIn.addr)),
                used |-> <<>>]

ChainFrame == UNCHANGED <<callIn, encVars, wotsVars, parVars, monVars>>

ThisStart == callIn.plan[callOut.call][1]
ThisSteps == callIn.plan[callOut.call][2]

\* i := start
firstStepMutZero(start) == 0
firstStep(start) == start

\* i < start+steps && i < wotsw
loopContinuesMutInclusive(i, start, steps) == i <= start + steps /\ i < wotsw
loopContinues(i, start, steps) == i < start + steps /\ i < wotsw

\* the entry of genChain: copy(out, in), copy(current, in), i := start
ChainEnter ==
  /\ pc = "call"
  /\ pc' = "loop"
  /\ callOut' = [callOut EXCEPT !.current = callOut.out, !.i = firstStep(ThisStart)]
  /\ ChainFrame

\* tool-3: one iteration of the loop
ChainStep3 ==
  /\ pc = "loop" /\ callIn.tool = "tool-3"
  /\ loopContinues(callOut.i, ThisStart, ThisSteps)
  /\ LET hashAddr == withHashAddr(callOut.addr, callOut.i)
     IN  callOut' = [callOut EXCEPT
                       !.current = thashF(callOut.current, chainPubSeed, hashAddr),
                       !.used = Append(callOut.used, hashAddr[7]),
                       !.i = callOut.i + 1]
  /\ UNCHANGED pc
  /\ ChainFrame

\* tool-2: one iteration of the loop, on the caller's address
ChainStep2 ==
  /\ pc = "loop" /\ callIn.tool = "tool-2"
  /\ loopContinues(callOut.i, ThisStart, ThisSteps)
  /\ LET hashAddr == setHashAddr(callOut.addr, callOut.i)
         r == T2thashF(callOut.current, chainPubSeed, hashAddr)
     IN  callOut' = [callOut EXCEPT
                       !.current = r.out,
                       !.addr = r.addr,
                       !.used = Append(callOut.used, hashAddr[7]),
                       !.i = callOut.i + 1]
  /\ UNCHANGED pc
  /\ ChainFrame

\* the end of the loop: copy(out, current) / return out; the next call
ChainReturn ==
  /\ pc = "loop"
  /\ ~loopContinues(callOut.i, ThisStart, ThisSteps)
  /\ pc' = IF callOut.call = Len(callIn.plan) THEN "done" ELSE "call"
  /\ callOut' = [callOut EXCEPT !.out = callOut.current, !.call = callOut.call + 1]
  /\ ChainFrame

ChainNext ==
  \/ ChainEnter
  \/ ChainStep3
  \/ ChainStep2
  \/ ChainReturn

SpecChain == ChainInit /\ [][ChainNext]_vars

ChainDone == pc = "done" /\ callIn.tool \in {"tool-3", "tool-2"} /\ "plan" \in DOMAIN callIn

\* the walk of a whole chain in one call, as genChain computes it
WholeWalk ==
  IF callIn.tool = "tool-3"
  THEN genChain(callIn.in, callIn.in, 0, wotsw - 1, chainPubSeed, callIn.addr)
  ELSE T2genChain(callIn.in, 0, wotsw - 1, chainPubSeed,
                  bytes32ToWOTSAddress(T2Addr(callIn.addr))).out

\* C17: in both implementations a walk of d steps from step 0 followed by a
\* walk of 15-d steps from step d on its output ends where the walk of 15
\* steps from step 0 ends, for every d in 0..15.
C17_ChainWalksCompose ==
  (ChainDone /\ (Len(callIn.plan) = 2 \/ callIn.plan = <<<<0, wotsw - 1>>>>)) =>
    callOut.out = WholeWalk

\* a chain walked in two calls, 9 steps then 6
C17_Witness ==
  /\ ChainDone
  /\ callIn.plan = <<<<0, 9>>, <<9, 6>>>>
  /\ callOut.used = <<0, 1, 2, 3, 4, 5, 6, 7, 8, 9, 10, 11, 12, 13, 14>>
  /\ callOut.out = WholeWalk
  /\ callOut.out # callIn.in

\* a finished single call with start + steps <= 15, as the callers make it
CallerCall ==
  /\ ChainDone
  /\ Len(callIn.plan) = 1
  /\ callIn.plan[1][1] + callIn.plan[1][2] <= wotsw - 1

\* C18: genChain(x, start, steps) with start + steps <= 15 applies thashF
\* exactly steps times, the k-th time (k = 0..steps-1) with hash step
\* start+k; no hash step above 15 is ever used; with steps = 0 the output
\* is x.
C18_ExactlyStepsApplications ==
  /\ "used" \in DOMAIN callOut => \A k \in 1 .. Len(callOut.used) : callOut.used[k] <= wotsw - 1
  /\ CallerCall =>
       /\ Len(callOut.used) = callIn.plan[1][2]
       /\ \A k \in 1 .. Len(callOut.used) : callOut.used[k] = callIn.plan[1][1] + (k - 1)
       /\ callIn.plan[1][2] = 0 => callOut.out = callIn.in

\* a walk of 4 steps from step 11, which ends at hash step 14
C18_Witness ==
  /\ CallerCall
  /\ callIn.plan = <<<<11, 4>>>>
  /\ callOut.used = <<11, 12, 13, 14>>
  /\ callOut.out # callIn.in

\* the address as the caller had it before the first call
CallerAddr ==
  IF callIn.tool = "tool-3" THEN callIn.addr
  ELSE bytes32ToWOTSAddress(T2Addr(callIn.addr))

\* b is a but for word w (1..8)
OnlyWord(a, b, w) == \A j \in 1..AddrWords : j # w => b[j] = a[j]

\* C22 as stated: in both implementations thashF returns with the selector
\* word as it was before the call and genChain with every word but the
\* hash-step word as the caller had it; the setters of the chain, hash-step
\* and selector words change their own word only.
C22_AddressFrame ==
  /\ OnlyWord(CallerAddr, callOut.addr, 7)
  /\ \A v \in 0..(wotsw - 1) :
       /\ OnlyWord(callOut.addr, withChainAddr(callOut.addr, v), 6)
       /\ OnlyWord(callOut.addr, withHashAddr(callOut.addr, v), 7)
       /\ OnlyWord(callOut.addr, withKeyAndMask(callOut.addr, v), 8)
       /\ OnlyWord(callOut.addr, setChainAddr(callOut.addr, v), 6)
       /\ OnlyWord(callOut.addr, setHashAddr(callOut.addr, v), 7)
       /\ OnlyWord(callOut.addr, setKeyAndMask(callOut.addr, v), 8)

(***************************************************************************)
(* wallet-tool main from CreateTransaction on: the transaction is created  *)
(* and signed, the advanced index is saved to the wallet cache file, and   *)
(* the transaction is submitted and monitored.  callIn holds the index in  *)
(* the cache file at the start and the index VerifyCurrentIndex returned;  *)
(* callOut holds the cache in memory and on file, the transaction, and     *)
(* logs of the signatures made and of the transactions submitted.          *)
(***************************************************************************)
MaxIndex == 2

WalletRuns ==
  [tool : {"wallet-tool main"}, cacheIndex : {0, MaxIndex}, currentIndex : {0, MaxIndex}]

NoSigned == [source |-> -1, change |-> -1, message |-> <<>>, signature |-> -1]

WalletInit ==
  /\ pc = "wcreate"
  /\ EncIdle
  /\ WotsIdle
  /\ ParIdle
  /\ callIn \in WalletRuns
  /\ callOut = [file |-> callIn.cacheIndex, Index |-> callIn.cacheIndex, nextIndex |-> 0,
                tx |-> NoSigned, creates |-> 0, signs |-> <<>>, sent |-> <<>>,
                saved |-> "not yet"]
  /\ height = 1 /\ txBlock = 0 /\ mempool = FALSE /\ elapsed = 0
  /\ apiReliable = FALSE
  /\ keeptrying \in BOOLEAN
  /\ confirmations \in Confirmations
  /\ timeout = MaxTimeout
  /\ txID = <<>> /\ submits = 0 /\ inMempool = FALSE /\ txConfirmed = FALSE
  /\ confirmBlockHeight = 0 /\ confirmedCount = 0 /\ lastCheckedBlock = 0
  /\ skipMempoolCheck = FALSE /\ failedAttempts = 0
  /\ verified = FALSE /\ lastMsg = NoMsg

\* CreateTransaction: the keypairs of currentIndex and currentIndex + 1,
\* the message, its signature by the key of currentIndex
CreateTransaction(currentIndex) ==
  [tx |-> [source |-> currentIndex, change |-> currentIndex + 1,
           message |-> <<"message", currentIndex, currentIndex + 1>>, signature |-> 0],
   nextIndex |-> currentIndex + 2]

\* tx, nextIndex, err := CreateTransaction(...)
WalletCreate ==
  /\ pc = "wcreate"
  /\ \E ok \in BOOLEAN :
       IF ok
       THEN LET r == CreateTransaction(callIn.currentIndex)
            IN /\ callOut' = [callOut EXCEPT
                                !.tx = r.tx, !.nextIndex = r.nextIndex,
                                !.creates = @ + 1,
                                !.signs = Append(@, <<r.tx.source, r.tx.message>>)]
               /\ pc' = "wsave"
       ELSE /\ callOut' = [callOut EXCEPT !.creates = @ + 1]
            /\ pc' = "exit"
  /\ UNCHANGED <<callIn, encVars, wotsVars, parVars, monVars>>

\* mutant: the error of SaveWalletCache is ignored
WalletSaveMutIgnoreError ==
  /\ pc = "wsave"
  /\ \E ok \in BOOLEAN :
       /\ callOut' = [callOut EXCEPT
                        !.Index = callOut.nextIndex,
                        !.file = IF ok THEN callOut.nextIndex ELSE @,
                        !.saved = IF ok THEN "yes" ELSE "failed"]
       /\ pc' = "submit"
  /\ UNCHANGED <<callIn, encVars, wotsVars, parVars, monVars>>

\* cache.Index = nextIndex; SaveWalletCache; exit when it fails
WalletSave ==
  /\ pc = "wsave"
  /\ \E ok \in BOOLEAN :
       /\ callOut' = [callOut EXCEPT
                        !.Index = callOut.nextIndex,
                        !.file = IF ok THEN callOut.nextIndex ELSE @,
                        !.saved = IF ok THEN "yes" ELSE "failed"]
       /\ pc' = IF ok THEN "submit" ELSE "exit"
  /\ UNCHANGED <<callIn, encVars, wotsVars, parVars, monVars>>

WalletNext ==
  \/ WalletCreate
  \/ WalletSave
  \/ MonNext

SpecWallet == WalletInit /\ [][WalletNext]_vars

\* C25: the index currentIndex + 2 is in the wallet cache file before the
\* transaction is submitted for the first time; when saving the cache
\* fails SubmitTransaction is never called; once saved, the index in the
\* file is never lowered in the run.
C25_IndexSavedBeforeSubmit ==
  /\ [](submits >= 1 =>
          callOut.saved = "yes" /\ callOut.file = callIn.currentIndex + 2)
  /\ [](callOut.saved = "failed" => submits = 0 /\ callOut.sent = <<>>)
  /\ [][callOut.saved = "yes" => callOut.file' >= callOut.file]_vars

\* a run that saved index 2 and has submitted the transaction three times
C25_Witness ==
  /\ callIn.currentIndex = 0
  /\ callOut.saved = "yes" /\ callOut.file = 2
  /\ submits = 3

\* C26: in one run CreateTransaction is called once and the key of
\* currentIndex signs one message; the first submission and every
\* rebroadcast send that one signed transaction.
C26_OneSignedTransaction ==
  /\ callOut.creates <= 1
  /\ Len(callOut.signs) <= 1
  /\ Len(callOut.sent) = submits
  /\ submits >= 1 =>
       /\ callOut.creates = 1
       /\ callOut.signs = <<<<callIn.currentIndex, callOut.tx.message>>>>
       /\ \A k \in 1..Len(callOut.sent) : callOut.sent[k] = callOut.tx

\* a run with -keeptrying that rebroadcast after a reorg and after the
\* transaction left the mempool
C26_Witness ==
  /\ keeptrying
  /\ callOut.creates = 1
  /\ Len(callOut.sent) >= 3
  /\ callOut.sent[3] = callOut.tx
  /\ callOut.tx.source = callIn.currentIndex
  /\ lastMsg = <<"reorg", "resubmitted">>

====
